---- MODULE Spec2Model ----
(***************************************************************************)
(* Configuration profiles of nflow-ai: the durable store                   *)
(* (LocalStorageService over window.localStorage), the debounced autosave  *)
(* (debounce / debouncedSaveCurrentProfile) and the in-memory projection   *)
(* (configurationReducer driven by the ConfigurationProvider callbacks).   *)
(*                                                                         *)
(* Time is counted in milliseconds.  Every provider callback is one atomic *)
(* step: none of them awaits, so each runs to completion on the single     *)
(* JavaScript thread, and React has committed the previous dispatch before *)
(* the next callback is invoked.  A timer that is due runs before anything *)
(* else happens.                                                           *)
(*                                                                         *)
(* The specifications share the variables.  Spec is the provider over an   *)
(* empty store and SpecSession the provider over a store an earlier        *)
(* session left; SpecFaulty is that session on a medium that may reject a  *)
(* write, SpecBatch one whose event handlers edit one or two settings      *)
(* against the same render.  SpecCoalescer (autosave), SpecService         *)
(* (profile operations), SpecStore (the two slots, rejected writes and     *)
(* undecodable text) and SpecRace (createProfile by two callers of one     *)
(* store, split between its read and its write of the list) call the       *)
(* service directly.  SpecReducer applies configurationReducer alone.      *)
(* A call that reads the clock twice may see the next millisecond the      *)
(* second time.                                                            *)
(***************************************************************************)
EXTENDS Integers, Sequences, FiniteSets, TLC

VARIABLES
    localStorage,   \* window.localStorage: key -> stored string, or Absent
    state,          \* useReducer state: currentProfile, profiles, loading, error
    timers,         \* the host's pending setTimeout entries
    timeout,        \* the `timeout` variable captured by debounce's closure
    now,            \* the clock read by Date.now() / new Date()
    burst,          \* history: the autosave invocations since the last quiet period
    lastCall,       \* history: the operation that produced this state
    ops,            \* history: number of calls made so far
    writers         \* the callers of createProfile that share the store: where each
                    \* one stands in its call, and what the calls have returned

vars == <<localStorage, state, timers, timeout, now, burst, lastCall, ops, writers>>

----------------------------------------------------------------------------
(* Bounds of the exploration *)

MaxOps == 3
MaxNow == 7500
MaxProfiles == 2
MaxTimers == 2

(* Program constants *)

CONFIG_STORAGE_KEY == "nexusflow-config"
PROFILES_STORAGE_KEY == "nexusflow-profiles"
wait == 5000

(* Inputs *)

Keys == {"theme", "lang"}
Undefined == "undefined"
Vals == {"light", Undefined}
RandVals == {1, 2}
Steps == {2500, 5000}
MissingId == <<0, 0>>

----------------------------------------------------------------------------
(* JavaScript values *)

Null == [null |-> TRUE]
Absent == [absent |-> TRUE]
\* a stored string that JSON.parse rejects
Corrupt == [corrupt |-> TRUE]
\* an exception that leaves a call
Thrown == [thrown |-> TRUE]
NoError == "null"
NoTimeout == 0

Min(a, b) == IF a < b THEN a ELSE b

\* {}
EmptyObject == [k \in {} |-> Undefined]

\* obj[key]: a property that is not there reads as undefined
Get(obj, key) == IF key \in DOMAIN obj THEN obj[key] ELSE Undefined

\* { ...a, ...b }
Spread(a, b) ==
    [k \in DOMAIN a \cup DOMAIN b |-> IF k \in DOMAIN b THEN b[k] ELSE a[k]]

\* JSON.stringify drops the properties whose value is undefined
JsonSettings(s) == [k \in {x \in DOMAIN s : s[x] # Undefined} |-> s[k]]

JsonProfile(p) == [p EXCEPT !.settings = JsonSettings(p.settings)]

JsonStringifyProfile(p) == [text |-> JsonProfile(p)]

JsonStringifyList(l) == [text |-> [i \in 1..Len(l) |-> JsonProfile(l[i])]]

JsonParse(s) == s.text

\* Array.prototype.findIndex, 0 for -1
FindIndex(l, id) ==
    IF \E i \in 1..Len(l) : l[i].id = id
    THEN CHOOSE i \in 1..Len(l) :
            /\ l[i].id = id
            /\ \A j \in 1..(i - 1) : l[j].id # id
    ELSE 0

RECURSIVE Filter(_, _)
\* profiles.filter(profile => profile.id !== id)
Filter(l, id) ==
    IF l = <<>> THEN <<>>
    ELSE IF Head(l).id # id THEN <<Head(l)>> \o Filter(Tail(l), id)
         ELSE Filter(Tail(l), id)

----------------------------------------------------------------------------
(* LocalStorageService: each operator maps the storage to the storage after *)
(* the call (field ls) and the value returned (field ret).                  *)

\* seeded fault: the profile is stored with the updatedAt it came with
LocalStorageService_saveCurrentProfile_noStamp(ls, profile, t) ==
    [ls EXCEPT ![CONFIG_STORAGE_KEY] = JsonStringifyProfile(profile)]

\* seeded fault: every save counts as a new version
LocalStorageService_saveCurrentProfile_bumpVersion(ls, profile, t) ==
    [ls EXCEPT ![CONFIG_STORAGE_KEY] =
        JsonStringifyProfile([profile EXCEPT !.updatedAt = t, !.version = @ + 1])]

LocalStorageService_saveCurrentProfile(ls, profile, t) ==
    [ls EXCEPT ![CONFIG_STORAGE_KEY] =
        JsonStringifyProfile([profile EXCEPT !.updatedAt = t])]

\* seeded fault: a parse failure reaches the caller
LocalStorageService_loadCurrentProfile_rethrow(ls) ==
    IF ls[CONFIG_STORAGE_KEY] = Absent THEN Null
    ELSE IF ls[CONFIG_STORAGE_KEY] = Corrupt THEN Thrown
    ELSE JsonParse(ls[CONFIG_STORAGE_KEY])

\* JSON.parse throws on text that is not JSON; the catch returns null
LocalStorageService_loadCurrentProfile(ls) ==
    IF ls[CONFIG_STORAGE_KEY] = Absent THEN Null
    ELSE IF ls[CONFIG_STORAGE_KEY] = Corrupt THEN Null
    ELSE JsonParse(ls[CONFIG_STORAGE_KEY])

\* seeded fault: the profiles are added to the stored list instead of replacing it
LocalStorageService_saveProfiles_append(ls, profiles) ==
    LET stored == IF ls[PROFILES_STORAGE_KEY] \in {Absent, Corrupt} THEN <<>>
                  ELSE JsonParse(ls[PROFILES_STORAGE_KEY])
    IN  [ls EXCEPT ![PROFILES_STORAGE_KEY] = JsonStringifyList(stored \o profiles)]

LocalStorageService_saveProfiles(ls, profiles) ==
    [ls EXCEPT ![PROFILES_STORAGE_KEY] = JsonStringifyList(profiles)]

\* JSON.parse throws on text that is not JSON; the catch returns []
LocalStorageService_loadProfiles(ls) ==
    IF ls[PROFILES_STORAGE_KEY] = Absent THEN <<>>
    ELSE IF ls[PROFILES_STORAGE_KEY] = Corrupt THEN <<>>
    ELSE JsonParse(ls[PROFILES_STORAGE_KEY])

\* seeded fault: the catch of saveCurrentProfile does not rethrow
TrySaveCurrentProfile_swallow(ls, profile, t, accepts) ==
    [ls |-> IF accepts THEN LocalStorageService_saveCurrentProfile(ls, profile, t) ELSE ls,
     threw |-> FALSE]

\* saveCurrentProfile over a medium that accepts the setItem or rejects it (quota):
\* a rejected setItem stores nothing and the catch rethrows
TrySaveCurrentProfile(ls, profile, t, accepts) ==
    [ls |-> IF accepts THEN LocalStorageService_saveCurrentProfile(ls, profile, t) ELSE ls,
     threw |-> ~accepts]

\* saveProfiles over a medium that accepts the setItem or rejects it
TrySaveProfiles(ls, profiles, accepts) ==
    [ls |-> IF accepts THEN LocalStorageService_saveProfiles(ls, profiles) ELSE ls,
     threw |-> ~accepts]

\* seeded fault: the summaries come in reverse list order
LocalStorageService_getProfileSummaries_reversed(ls) ==
    LET profiles == LocalStorageService_loadProfiles(ls)
    IN  [i \in 1..Len(profiles) |->
            [id |-> profiles[Len(profiles) + 1 - i].id,
             name |-> profiles[Len(profiles) + 1 - i].name,
             updatedAt |-> profiles[Len(profiles) + 1 - i].updatedAt]]

LocalStorageService_getProfileSummaries(ls) ==
    LET profiles == LocalStorageService_loadProfiles(ls)
    IN  [i \in 1..Len(profiles) |->
            [id |-> profiles[i].id, name |-> profiles[i].name,
             updatedAt |-> profiles[i].updatedAt]]

\* profileData.copyFromCurrent !== false
CopyFromCurrent(profileData) ==
    IF "copyFromCurrent" \in DOMAIN profileData THEN profileData.copyFromCurrent ELSE TRUE

\* seeded fault: the settings are copied whatever copyFromCurrent says
NewProfile_alwaysCopy(ls, profileData, t, rnd) ==
    LET cur == LocalStorageService_loadCurrentProfile(ls)
    IN  [id |-> <<t, rnd>>,
         name |-> profileData.name,
         settings |-> IF cur # Null THEN cur.settings ELSE EmptyObject,
         createdAt |-> t,
         updatedAt |-> t,
         version |-> 1]

\* the profile object createProfile builds: id from Date.now() and Math.random(),
\* settings copied from the stored current profile unless copyFromCurrent is false
NewProfile(ls, profileData, t, rnd) ==
    LET cur == LocalStorageService_loadCurrentProfile(ls)
    IN  [id |-> <<t, rnd>>,
         name |-> profileData.name,
         settings |-> IF CopyFromCurrent(profileData) /\ cur # Null
                      THEN cur.settings
                      ELSE EmptyObject,
         createdAt |-> t,
         updatedAt |-> t,
         version |-> 1]

\* seeded fault: every new profile becomes the current one
LocalStorageService_createProfile_alwaysCurrent(ls, profileData, t, t2, rnd) ==
    LET newProfile == NewProfile(ls, profileData, t, rnd)
        existingProfiles == LocalStorageService_loadProfiles(ls)
        ls1 == LocalStorageService_saveProfiles(ls, Append(existingProfiles, newProfile))
    IN  [ls |-> LocalStorageService_saveCurrentProfile(ls1, newProfile, t2),
         ret |-> newProfile]

\* t is the clock when the profile is built, t2 the clock read again by the
\* nested saveCurrentProfile
LocalStorageService_createProfile(ls, profileData, t, t2, rnd) ==
    LET newProfile == NewProfile(ls, profileData, t, rnd)
        existingProfiles == LocalStorageService_loadProfiles(ls)
        ls1 == LocalStorageService_saveProfiles(ls, Append(existingProfiles, newProfile))
    IN  [ls |-> IF Len(existingProfiles) = 0
                THEN LocalStorageService_saveCurrentProfile(ls1, newProfile, t2)
                ELSE ls1,
         ret |-> newProfile]

\* seeded fault: every update counts as a new version
LocalStorageService_updateProfile_bumpVersion(ls, profileId, updates, t, t2) ==
    LET profiles == LocalStorageService_loadProfiles(ls)
        profileIndex == FindIndex(profiles, profileId)
        old == profiles[profileIndex]
        updatedProfile ==
            [id |-> old.id,
             name |-> IF "name" \in DOMAIN updates THEN updates.name ELSE old.name,
             settings |-> IF "settings" \in DOMAIN updates
                          THEN Spread(old.settings, updates.settings)
                          ELSE old.settings,
             createdAt |-> old.createdAt,
             updatedAt |-> t,
             version |-> old.version + 1]
        ls1 == LocalStorageService_saveProfiles(ls,
                    [profiles EXCEPT ![profileIndex] = updatedProfile])
        currentProfile == LocalStorageService_loadCurrentProfile(ls1)
    IN  IF profileIndex = 0 THEN [ls |-> ls, ret |-> Null]
        ELSE [ls |-> IF currentProfile # Null /\ currentProfile.id = profileId
                     THEN LocalStorageService_saveCurrentProfile(ls1, updatedProfile, t2)
                     ELSE ls1,
              ret |-> updatedProfile]

\* seeded fault: the supplied settings replace the stored ones instead of
\* being merged into them
LocalStorageService_updateProfile_replaceSettings(ls, profileId, updates, t, t2) ==
    LET profiles == LocalStorageService_loadProfiles(ls)
        profileIndex == FindIndex(profiles, profileId)
        old == profiles[profileIndex]
        updatedProfile ==
            [id |-> old.id,
             name |-> IF "name" \in DOMAIN updates THEN updates.name ELSE old.name,
             settings |-> IF "settings" \in DOMAIN updates
                          THEN updates.settings
                          ELSE old.settings,
             createdAt |-> old.createdAt,
             updatedAt |-> t,
             version |-> old.version]
        ls1 == LocalStorageService_saveProfiles(ls,
                    [profiles EXCEPT ![profileIndex] = updatedProfile])
        currentProfile == LocalStorageService_loadCurrentProfile(ls1)
    IN  IF profileIndex = 0 THEN [ls |-> ls, ret |-> Null]
        ELSE [ls |-> IF currentProfile # Null /\ currentProfile.id = profileId
                     THEN LocalStorageService_saveCurrentProfile(ls1, updatedProfile, t2)
                     ELSE ls1,
              ret |-> updatedProfile]

\* seeded fault: an id that is not in the list is added to it
LocalStorageService_updateProfile_upsert(ls, profileId, updates, t, t2) ==
    LET profiles == LocalStorageService_loadProfiles(ls)
        profileIndex == FindIndex(profiles, profileId)
        old == IF profileIndex = 0
               THEN [id |-> profileId, name |-> "", settings |-> EmptyObject,
                     createdAt |-> t, updatedAt |-> t, version |-> 1]
               ELSE profiles[profileIndex]
        updatedProfile ==
            [id |-> old.id,
             name |-> IF "name" \in DOMAIN updates THEN updates.name ELSE old.name,
             settings |-> IF "settings" \in DOMAIN updates
                          THEN Spread(old.settings, updates.settings)
                          ELSE old.settings,
             createdAt |-> old.createdAt,
             updatedAt |-> t,
             version |-> old.version]
        ls1 == LocalStorageService_saveProfiles(ls,
                    IF profileIndex = 0
                    THEN Append(profiles, updatedProfile)
                    ELSE [profiles EXCEPT ![profileIndex] = updatedProfile])
        currentProfile == LocalStorageService_loadCurrentProfile(ls1)
    IN  [ls |-> IF currentProfile # Null /\ currentProfile.id = profileId
                THEN LocalStorageService_saveCurrentProfile(ls1, updatedProfile, t2)
                ELSE ls1,
         ret |-> IF profileIndex = 0 THEN Null ELSE updatedProfile]

\* t is the clock when updatedProfile is built, t2 the clock read again by the
\* nested saveCurrentProfile
LocalStorageService_updateProfile(ls, profileId, updates, t, t2) ==
    LET profiles == LocalStorageService_loadProfiles(ls)
        profileIndex == FindIndex(profiles, profileId)
        old == profiles[profileIndex]
        \* { ...old, ...updates, updatedAt, settings }: a ConfigurationUpdate
        \* carries settings and name only
        updatedProfile ==
            [id |-> old.id,
             name |-> IF "name" \in DOMAIN updates THEN updates.name ELSE old.name,
             settings |-> IF "settings" \in DOMAIN updates
                          THEN Spread(old.settings, updates.settings)
                          ELSE old.settings,
             createdAt |-> old.createdAt,
             updatedAt |-> t,
             version |-> old.version]
        ls1 == LocalStorageService_saveProfiles(ls,
                    [profiles EXCEPT ![profileIndex] = updatedProfile])
        currentProfile == LocalStorageService_loadCurrentProfile(ls1)
    IN  IF profileIndex = 0 THEN [ls |-> ls, ret |-> Null]
        ELSE [ls |-> IF currentProfile # Null /\ currentProfile.id = profileId
                     THEN LocalStorageService_saveCurrentProfile(ls1, updatedProfile, t2)
                     ELSE ls1,
              ret |-> updatedProfile]

\* seeded fault: deleting the current profile always clears the pointer slot
LocalStorageService_deleteProfile_noRepoint(ls, profileId, t) ==
    LET profiles0 == LocalStorageService_loadProfiles(ls)
        profileIndex == FindIndex(profiles0, profileId)
        profiles == Filter(profiles0, profileId)
        ls1 == LocalStorageService_saveProfiles(ls, profiles)
        currentProfile == LocalStorageService_loadCurrentProfile(ls1)
    IN  IF profileIndex = 0 THEN [ls |-> ls, ret |-> FALSE]
        ELSE [ls |-> IF currentProfile # Null /\ currentProfile.id = profileId
                     THEN [ls1 EXCEPT ![CONFIG_STORAGE_KEY] = Absent]
                     ELSE ls1,
              ret |-> TRUE]

LocalStorageService_deleteProfile(ls, profileId, t) ==
    LET profiles0 == LocalStorageService_loadProfiles(ls)
        profileIndex == FindIndex(profiles0, profileId)
        profiles == Filter(profiles0, profileId)
        ls1 == LocalStorageService_saveProfiles(ls, profiles)
        currentProfile == LocalStorageService_loadCurrentProfile(ls1)
    IN  IF profileIndex = 0 THEN [ls |-> ls, ret |-> FALSE]
        ELSE [ls |-> IF currentProfile # Null /\ currentProfile.id = profileId
                     THEN IF Len(profiles) > 0
                          THEN LocalStorageService_saveCurrentProfile(ls1, profiles[1], t)
                          ELSE [ls1 EXCEPT ![CONFIG_STORAGE_KEY] = Absent]
                     ELSE ls1,
              ret |-> TRUE]

----------------------------------------------------------------------------
(* The compound operations over a medium that may reject a setItem: acc.list *)
(* says whether the call's write of the list slot is accepted, acc.pointer   *)
(* whether its write of the pointer slot is. A rejected write throws, so the *)
(* statements after it do not run; threw tells whether the call raised.      *)

Accepts == [list : BOOLEAN, pointer : BOOLEAN]

TryCreateProfile(ls, profileData, t, t2, rnd, acc) ==
    LET newProfile == NewProfile(ls, profileData, t, rnd)
        existingProfiles == LocalStorageService_loadProfiles(ls)
        w1 == TrySaveProfiles(ls, Append(existingProfiles, newProfile), acc.list)
        w2 == TrySaveCurrentProfile(w1.ls, newProfile, t2, acc.pointer)
    IN  IF w1.threw THEN [ls |-> w1.ls, ret |-> Null, threw |-> TRUE]
        ELSE IF Len(existingProfiles) = 0
        THEN [ls |-> w2.ls, ret |-> IF w2.threw THEN Null ELSE newProfile,
              threw |-> w2.threw]
        ELSE [ls |-> w1.ls, ret |-> newProfile, threw |-> FALSE]

TryUpdateProfile(ls, profileId, updates, t, t2, acc) ==
    LET profiles == LocalStorageService_loadProfiles(ls)
        profileIndex == FindIndex(profiles, profileId)
        updatedProfile == LocalStorageService_updateProfile(ls, profileId, updates, t, t2).ret
        w1 == TrySaveProfiles(ls, [profiles EXCEPT ![profileIndex] = updatedProfile],
                              acc.list)
        currentProfile == LocalStorageService_loadCurrentProfile(w1.ls)
        w2 == TrySaveCurrentProfile(w1.ls, updatedProfile, t2, acc.pointer)
    IN  IF profileIndex = 0 THEN [ls |-> ls, ret |-> Null, threw |-> FALSE]
        ELSE IF w1.threw THEN [ls |-> w1.ls, ret |-> Null, threw |-> TRUE]
        ELSE IF currentProfile # Null /\ currentProfile.id = profileId
        THEN [ls |-> w2.ls, ret |-> IF w2.threw THEN Null ELSE updatedProfile,
              threw |-> w2.threw]
        ELSE [ls |-> w1.ls, ret |-> updatedProfile, threw |-> FALSE]

\* removeItem is never rejected
TryDeleteProfile(ls, profileId, t, acc) ==
    LET profiles0 == LocalStorageService_loadProfiles(ls)
        profileIndex == FindIndex(profiles0, profileId)
        profiles == Filter(profiles0, profileId)
        w1 == TrySaveProfiles(ls, profiles, acc.list)
        currentProfile == LocalStorageService_loadCurrentProfile(w1.ls)
        w2 == TrySaveCurrentProfile(w1.ls, profiles[1], t, acc.pointer)
    IN  IF profileIndex = 0 THEN [ls |-> ls, ret |-> FALSE, threw |-> FALSE]
        ELSE IF w1.threw THEN [ls |-> w1.ls, ret |-> FALSE, threw |-> TRUE]
        ELSE IF currentProfile # Null /\ currentProfile.id = profileId
        THEN IF Len(profiles) > 0
             THEN [ls |-> w2.ls, ret |-> ~w2.threw, threw |-> w2.threw]
             ELSE [ls |-> [w1.ls EXCEPT ![CONFIG_STORAGE_KEY] = Absent],
                   ret |-> TRUE, threw |-> FALSE]
        ELSE [ls |-> w1.ls, ret |-> TRUE, threw |-> FALSE]

----------------------------------------------------------------------------
(* configurationReducer *)

initialState ==
    [currentProfile |-> Null, profiles |-> <<>>, loading |-> FALSE, error |-> NoError]

\* seeded fault: UPDATE_SETTING stamps updatedAt but drops the new value
reduceUpdateSetting_noMerge(st, action) ==
    IF st.currentProfile = Null THEN st
    ELSE [st EXCEPT !.currentProfile = [st.currentProfile EXCEPT !.updatedAt = action.at]]

\* seeded fault: UPDATE_SETTING keeps the new key only
reduceUpdateSetting_dropOthers(st, action) ==
    IF st.currentProfile = Null THEN st
    ELSE [st EXCEPT !.currentProfile =
            [st.currentProfile EXCEPT
                !.settings = action.payload.key :> action.payload.value,
                !.updatedAt = action.at]]

\* case 'UPDATE_SETTING'
reduceUpdateSetting(st, action) ==
    IF st.currentProfile = Null THEN st
    ELSE [st EXCEPT !.currentProfile =
            [st.currentProfile EXCEPT
                !.settings = Spread(st.currentProfile.settings,
                                    action.payload.key :> action.payload.value),
                !.updatedAt = action.at]]

\* seeded fault: SAVE_SUCCESS adds the saved profile at the end when no entry has its id
reduceSaveSuccess_upsert(st, action) ==
    LET replaced == [i \in 1..Len(st.profiles) |->
                        IF st.profiles[i].id = action.payload.id
                        THEN action.payload
                        ELSE st.profiles[i]]
    IN  [st EXCEPT !.loading = FALSE,
                   !.currentProfile = action.payload,
                   !.profiles = IF \E i \in 1..Len(st.profiles) :
                                        st.profiles[i].id = action.payload.id
                                THEN replaced
                                ELSE Append(st.profiles, action.payload)]

\* case 'SAVE_SUCCESS'
reduceSaveSuccess(st, action) ==
    [st EXCEPT !.loading = FALSE,
               !.currentProfile = action.payload,
               !.profiles = [i \in 1..Len(st.profiles) |->
                                IF st.profiles[i].id = action.payload.id
                                THEN action.payload
                                ELSE st.profiles[i]]]

\* seeded fault: every created profile becomes the current one
reduceCreateProfileSuccess_alwaysCurrent(st, action) ==
    [st EXCEPT !.profiles = Append(st.profiles, action.payload),
               !.currentProfile = action.payload]

\* case 'CREATE_PROFILE_SUCCESS'
reduceCreateProfileSuccess(st, action) ==
    [st EXCEPT !.profiles = Append(st.profiles, action.payload),
               !.currentProfile = IF Len(st.profiles) = 0
                                  THEN action.payload
                                  ELSE st.currentProfile]

\* seeded fault: DELETE_PROFILE_SUCCESS repoints the in-memory current profile to
\* the first remaining profile, as the store does
reduceDeleteProfileSuccess_repoint(st, action) ==
    LET rest == Filter(st.profiles, action.payload)
    IN  [st EXCEPT !.profiles = rest,
                   !.currentProfile =
                        IF st.currentProfile # Null
                           /\ st.currentProfile.id = action.payload
                        THEN IF Len(rest) > 0 THEN rest[1] ELSE Null
                        ELSE st.currentProfile]

\* case 'DELETE_PROFILE_SUCCESS'
reduceDeleteProfileSuccess(st, action) ==
    [st EXCEPT !.profiles = Filter(st.profiles, action.payload),
               !.currentProfile =
                    IF st.currentProfile # Null
                       /\ st.currentProfile.id = action.payload
                    THEN Null
                    ELSE st.currentProfile]

configurationReducer(st, action) ==
    CASE action.type = "LOAD_START" ->
            [st EXCEPT !.loading = TRUE, !.error = NoError]
      [] action.type = "LOAD_SUCCESS" ->
            [st EXCEPT !.loading = FALSE,
                       !.currentProfile = action.payload.currentProfile,
                       !.profiles = action.payload.profiles]
      [] action.type = "LOAD_ERROR" ->
            [st EXCEPT !.loading = FALSE, !.error = action.payload]
      [] action.type = "SAVE_START" ->
            [st EXCEPT !.loading = TRUE]
      [] action.type = "SAVE_SUCCESS" -> reduceSaveSuccess(st, action)
      [] action.type = "SAVE_ERROR" ->
            [st EXCEPT !.loading = FALSE, !.error = action.payload]
      [] action.type = "CREATE_PROFILE_SUCCESS" -> reduceCreateProfileSuccess(st, action)
      [] action.type = "SWITCH_PROFILE_SUCCESS" ->
            [st EXCEPT !.currentProfile = action.payload]
      [] action.type = "DELETE_PROFILE_SUCCESS" -> reduceDeleteProfileSuccess(st, action)
      [] action.type = "UPDATE_SETTING" -> reduceUpdateSetting(st, action)
      [] OTHER -> st

----------------------------------------------------------------------------
(* debounce(func, wait) and the host's timers *)

\* setTimeout hands out a handle that no pending timer holds
NewHandle(ts) ==
    CHOOSE h \in 1..(Cardinality(ts) + 1) : \A x \in ts : x.handle # h

\* seeded fault: clearTimeout cancels nothing
clearTimeout_noop(ts, handle) == ts

\* clearTimeout(handle)
clearTimeout(ts, handle) == {x \in ts : x.handle # handle}

\* setTimeout(later, wait), later calling func(...args)
setTimeout(ts, args, ms) ==
    ts \cup {[handle |-> NewHandle(ts), remaining |-> ms, args |-> args]}

\* seeded fault: the flush is scheduled at half the delay
executedFunction_halfWait(ts, args) ==
    LET cleared == clearTimeout(ts, timeout)
    IN  [timers |-> setTimeout(cleared, args, wait \div 2), timeout |-> NewHandle(cleared)]

\* seeded fault: a pending flush keeps its own arguments when it is rescheduled
executedFunction_keepFirst(ts, args) ==
    LET pending == {x \in ts : x.handle = timeout}
        cleared == clearTimeout(ts, timeout)
        kept == IF pending # {} THEN (CHOOSE x \in pending : TRUE).args ELSE args
    IN  [timers |-> setTimeout(cleared, kept, wait), timeout |-> NewHandle(cleared)]

\* executedFunction(...args): the timers and the `timeout` variable after the call
executedFunction(ts, args) ==
    LET cleared == clearTimeout(ts, timeout)
    IN  [timers |-> setTimeout(cleared, args, wait), timeout |-> NewHandle(cleared)]

NoTimerDue == \A x \in timers : x.remaining > 0

\* seeded fault: the sink stores the profile without stamping updatedAt
SinkText_noStamp(profile, t) == JsonStringifyProfile(profile)

\* the sink wrapped by debounce: debouncedSaveCurrentProfile's func
SinkText(profile, t) == JsonStringifyProfile([profile EXCEPT !.updatedAt = t])

----------------------------------------------------------------------------
(* Initial state: an empty store, a freshly mounted provider, no timer *)

\* two callers of LocalStorageService.createProfile over the same localStorage
Writers == {1, 2}

Idle == [pc |-> "idle"]

NoWriters == [proc |-> [w \in Writers |-> Idle], returned |-> <<>>, overlapped |-> FALSE]

NoBurst ==
    [n |-> 0, lastArg |-> Null, edit |-> Null, lastAt |-> 0, since |-> 0, flushed |-> <<>>]

Init ==
    /\ localStorage = [k \in {CONFIG_STORAGE_KEY, PROFILES_STORAGE_KEY} |-> Absent]
    /\ state = initialState
    /\ timers = {}
    /\ timeout = NoTimeout
    /\ now = 0
    /\ burst = NoBurst
    /\ lastCall = [op |-> "init"]
    /\ ops = 0
    /\ writers = NoWriters

\* what a second `new Date()` of the same call can return: the same millisecond
\* or the next one
ClockReads == {now, now + 1}

\* a callback may start: the budget is not spent and no timer is waiting to run
CanCall == ops < MaxOps /\ NoTimerDue

\* LocalStorageService.autoSaveCurrentProfile(profile), which calls
\* debouncedSaveCurrentProfile(profile); edit is the setting being saved, if any
Invoke(profile, edit) ==
    LET r == executedFunction(timers, profile)
    IN  /\ Cardinality(r.timers) <= MaxTimers
        /\ timers' = r.timers
        /\ timeout' = r.timeout
        /\ burst' = IF burst.n > 0 /\ burst.since < wait
                    THEN [burst EXCEPT !.n = @ + 1, !.lastArg = profile, !.edit = edit,
                                       !.lastAt = now, !.since = 0]
                    ELSE [n |-> 1, lastArg |-> profile, edit |-> edit, lastAt |-> now,
                          since |-> 0, flushed |-> <<>>]

NoInvoke == UNCHANGED <<timers, timeout, burst>>

----------------------------------------------------------------------------
(* ConfigurationProvider callbacks *)

\* seeded fault: loadConfig reads the list and leaves the current profile as it is
loadConfig_listOnly ==
    /\ CanCall
    /\ LET st1 == configurationReducer(state, [type |-> "LOAD_START"])
           profiles == LocalStorageService_loadProfiles(localStorage)
       IN  state' = configurationReducer(st1,
                [type |-> "LOAD_SUCCESS",
                 payload |-> [currentProfile |-> state.currentProfile,
                              profiles |-> profiles]])
    /\ lastCall' = [op |-> "loadConfig"]
    /\ ops' = ops + 1
    /\ NoInvoke
    /\ UNCHANGED <<localStorage, now, writers>>

loadConfig ==
    /\ CanCall
    /\ LET st1 == configurationReducer(state, [type |-> "LOAD_START"])
           currentProfile == LocalStorageService_loadCurrentProfile(localStorage)
           profiles == LocalStorageService_loadProfiles(localStorage)
       IN  state' = configurationReducer(st1,
                [type |-> "LOAD_SUCCESS",
                 payload |-> [currentProfile |-> currentProfile, profiles |-> profiles]])
    /\ lastCall' = [op |-> "loadConfig"]
    /\ ops' = ops + 1
    /\ NoInvoke
    /\ UNCHANGED <<localStorage, now, writers>>

\* seeded fault: a failed save is reported in the state but not raised again
saveConfig_swallow(updates) ==
    /\ CanCall
    /\ \E t2 \in ClockReads :
       LET st1 == configurationReducer(state, [type |-> "SAVE_START"])
           r == LocalStorageService_updateProfile(localStorage,
                    state.currentProfile.id, updates, now, t2)
       IN  IF state.currentProfile = Null
           THEN /\ state' = configurationReducer(st1, [type |-> "SAVE_ERROR",
                        payload |-> "Failed to save configuration: No current profile to save"])
                /\ lastCall' = [op |-> "saveConfig", updates |-> updates, ret |-> "ok"]
                /\ UNCHANGED localStorage
           ELSE IF r.ret = Null
           THEN /\ state' = configurationReducer(st1, [type |-> "SAVE_ERROR",
                        payload |-> "Failed to save configuration: Failed to update profile"])
                /\ lastCall' = [op |-> "saveConfig", updates |-> updates, ret |-> "ok"]
                /\ localStorage' = r.ls
           ELSE /\ state' = configurationReducer(st1,
                        [type |-> "SAVE_SUCCESS", payload |-> r.ret])
                /\ lastCall' = [op |-> "saveConfig", updates |-> updates, ret |-> "ok"]
                /\ localStorage' = r.ls
    /\ ops' = ops + 1
    /\ NoInvoke
    /\ UNCHANGED <<now, writers>>

saveConfig(updates) ==
    /\ CanCall
    /\ \E t2 \in ClockReads :
       LET st1 == configurationReducer(state, [type |-> "SAVE_START"])
           r == LocalStorageService_updateProfile(localStorage,
                    state.currentProfile.id, updates, now, t2)
       IN  IF state.currentProfile = Null
           THEN /\ state' = configurationReducer(st1, [type |-> "SAVE_ERROR",
                        payload |-> "Failed to save configuration: No current profile to save"])
                /\ lastCall' = [op |-> "saveConfig", updates |-> updates, ret |-> "throw"]
                /\ UNCHANGED localStorage
           ELSE IF r.ret = Null
           THEN /\ state' = configurationReducer(st1, [type |-> "SAVE_ERROR",
                        payload |-> "Failed to save configuration: Failed to update profile"])
                /\ lastCall' = [op |-> "saveConfig", updates |-> updates, ret |-> "throw"]
                /\ localStorage' = r.ls
           ELSE /\ state' = configurationReducer(st1,
                        [type |-> "SAVE_SUCCESS", payload |-> r.ret])
                /\ lastCall' = [op |-> "saveConfig", updates |-> updates, ret |-> "ok"]
                /\ localStorage' = r.ls
    /\ ops' = ops + 1
    /\ NoInvoke
    /\ UNCHANGED <<now, writers>>

createProfile(profileData, rnd) ==
    /\ CanCall
    /\ Len(LocalStorageService_loadProfiles(localStorage)) < MaxProfiles
    /\ \E t2 \in ClockReads :
       LET r == LocalStorageService_createProfile(localStorage, profileData, now, t2, rnd)
       IN  /\ localStorage' = r.ls
           /\ state' = configurationReducer(state,
                    [type |-> "CREATE_PROFILE_SUCCESS", payload |-> r.ret])
           /\ lastCall' = [op |-> "createProfile", profileData |-> profileData,
                           ret |-> r.ret]
    /\ ops' = ops + 1
    /\ NoInvoke
    /\ UNCHANGED <<now, writers>>

\* seeded fault: the outgoing profile is not written back before the switch
switchProfile_noSwitchOut(profileId) ==
    /\ CanCall
    /\ LET profiles == LocalStorageService_loadProfiles(localStorage)
           i == FindIndex(profiles, profileId)
           profileToSwitch == profiles[i]
           ls1 == localStorage
           ls2 == LocalStorageService_saveCurrentProfile(ls1, profileToSwitch, now)
       IN  IF i = 0
           THEN /\ state' = configurationReducer(state, [type |-> "LOAD_ERROR",
                        payload |-> "Failed to switch profile: not found"])
                /\ lastCall' = [op |-> "switchProfile", profileId |-> profileId,
                                ret |-> "throw", writes |-> <<>>]
                /\ UNCHANGED localStorage
           ELSE /\ localStorage' = ls2
                /\ state' = configurationReducer(state,
                        [type |-> "SWITCH_PROFILE_SUCCESS", payload |-> profileToSwitch])
                /\ lastCall' = [op |-> "switchProfile", profileId |-> profileId,
                                ret |-> "ok",
                                writes |-> <<ls2[CONFIG_STORAGE_KEY]>>]
    /\ ops' = ops + 1
    /\ NoInvoke
    /\ UNCHANGED <<now, writers>>

\* seeded fault: the outgoing profile is written back before the target is looked up
switchProfile_saveFirst(profileId) ==
    /\ CanCall
    /\ LET profiles == LocalStorageService_loadProfiles(localStorage)
           i == FindIndex(profiles, profileId)
           profileToSwitch == profiles[i]
           ls1 == IF state.currentProfile # Null
                  THEN LocalStorageService_saveCurrentProfile(localStorage,
                            state.currentProfile, now)
                  ELSE localStorage
           ls2 == LocalStorageService_saveCurrentProfile(ls1, profileToSwitch, now)
       IN  IF i = 0
           THEN /\ state' = configurationReducer(state, [type |-> "LOAD_ERROR",
                        payload |-> "Failed to switch profile: not found"])
                /\ lastCall' = [op |-> "switchProfile", profileId |-> profileId,
                                ret |-> "throw",
                                writes |-> IF state.currentProfile # Null
                                           THEN <<ls1[CONFIG_STORAGE_KEY]>> ELSE <<>>]
                /\ localStorage' = ls1
           ELSE /\ localStorage' = ls2
                /\ state' = configurationReducer(state,
                        [type |-> "SWITCH_PROFILE_SUCCESS", payload |-> profileToSwitch])
                /\ lastCall' = [op |-> "switchProfile", profileId |-> profileId,
                                ret |-> "ok",
                                writes |-> IF state.currentProfile # Null
                                           THEN <<ls1[CONFIG_STORAGE_KEY],
                                                  ls2[CONFIG_STORAGE_KEY]>>
                                           ELSE <<ls2[CONFIG_STORAGE_KEY]>>]
    /\ ops' = ops + 1
    /\ NoInvoke
    /\ UNCHANGED <<now, writers>>

switchProfile(profileId) ==
    /\ CanCall
    /\ LET profiles == LocalStorageService_loadProfiles(localStorage)
           i == FindIndex(profiles, profileId)
           profileToSwitch == profiles[i]
           ls1 == IF state.currentProfile # Null
                  THEN LocalStorageService_saveCurrentProfile(localStorage,
                            state.currentProfile, now)
                  ELSE localStorage
           ls2 == LocalStorageService_saveCurrentProfile(ls1, profileToSwitch, now)
       IN  IF i = 0
           THEN /\ state' = configurationReducer(state, [type |-> "LOAD_ERROR",
                        payload |-> "Failed to switch profile: not found"])
                /\ lastCall' = [op |-> "switchProfile", profileId |-> profileId,
                                ret |-> "throw", writes |-> <<>>]
                /\ UNCHANGED localStorage
           ELSE /\ localStorage' = ls2
                /\ state' = configurationReducer(state,
                        [type |-> "SWITCH_PROFILE_SUCCESS", payload |-> profileToSwitch])
                /\ lastCall' = [op |-> "switchProfile", profileId |-> profileId,
                                ret |-> "ok",
                                writes |-> IF state.currentProfile # Null
                                           THEN <<ls1[CONFIG_STORAGE_KEY],
                                                  ls2[CONFIG_STORAGE_KEY]>>
                                           ELSE <<ls2[CONFIG_STORAGE_KEY]>>]
    /\ ops' = ops + 1
    /\ NoInvoke
    /\ UNCHANGED <<now, writers>>

deleteProfile(profileId) ==
    /\ CanCall
    /\ LET r == LocalStorageService_deleteProfile(localStorage, profileId, now)
       IN  /\ localStorage' = r.ls
           /\ state' = IF r.ret
                       THEN configurationReducer(state,
                                [type |-> "DELETE_PROFILE_SUCCESS", payload |-> profileId])
                       ELSE configurationReducer(state, [type |-> "LOAD_ERROR",
                                payload |-> "Failed to delete profile: Failed to delete profile"])
           /\ lastCall' = [op |-> "deleteProfile", profileId |-> profileId, ret |-> r.ret,
                           mem |-> state.currentProfile]
    /\ ops' = ops + 1
    /\ NoInvoke
    /\ UNCHANGED <<now, writers>>

updateSetting(key, value) ==
    /\ CanCall
    /\ state' = configurationReducer(state,
            [type |-> "UPDATE_SETTING", payload |-> [key |-> key, value |-> value],
             at |-> now])
    /\ IF state.currentProfile # Null
       THEN Invoke([state.currentProfile EXCEPT
                        !.settings = Spread(state.currentProfile.settings, key :> value)],
                   [key |-> key, value |-> value])
       ELSE NoInvoke
    /\ lastCall' = [op |-> "updateSetting", key |-> key, value |-> value]
    /\ ops' = ops + 1
    /\ UNCHANGED <<localStorage, now, writers>>

\* two updateSetting calls made by one event handler: both close over the state
\* of the same render, while the reducer runs on the latest state
updateSettingBatch(key1, value1, key2, value2) ==
    /\ CanCall
    /\ key1 # key2
    /\ LET st1 == configurationReducer(state,
                    [type |-> "UPDATE_SETTING",
                     payload |-> [key |-> key1, value |-> value1], at |-> now])
       IN  state' = configurationReducer(st1,
                    [type |-> "UPDATE_SETTING",
                     payload |-> [key |-> key2, value |-> value2], at |-> now])
    /\ IF state.currentProfile # Null
       THEN LET arg1 == [state.currentProfile EXCEPT
                            !.settings = Spread(state.currentProfile.settings,
                                                key1 :> value1)]
                arg2 == [state.currentProfile EXCEPT
                            !.settings = Spread(state.currentProfile.settings,
                                                key2 :> value2)]
                r1 == executedFunction(timers, arg1)
                cleared == clearTimeout(r1.timers, r1.timeout)
            IN  /\ Cardinality(cleared) < MaxTimers
                /\ timers' = setTimeout(cleared, arg2, wait)
                /\ timeout' = NewHandle(cleared)
                /\ burst' = IF burst.n > 0 /\ burst.since < wait
                            THEN [burst EXCEPT !.n = @ + 2, !.lastArg = arg2,
                                               !.edit = [key |-> key2, value |-> value2],
                                               !.lastAt = now, !.since = 0]
                            ELSE [n |-> 2, lastArg |-> arg2,
                                  edit |-> [key |-> key2, value |-> value2],
                                  lastAt |-> now, since |-> 0, flushed |-> <<>>]
       ELSE NoInvoke
    /\ lastCall' = [op |-> "updateSettingBatch", key |-> key2, value |-> value2]
    /\ ops' = ops + 1
    /\ UNCHANGED <<localStorage, now, writers>>

\* getSetting(key)
getSetting(st, key) ==
    IF st.currentProfile = Null THEN Undefined
    ELSE Get(st.currentProfile.settings, key)

----------------------------------------------------------------------------
(* The passage of time and the timer callback *)

Tick(dt) ==
    /\ now + dt <= MaxNow
    /\ \A x \in timers : x.remaining >= dt
    /\ NoTimerDue
    /\ now' = now + dt
    /\ timers' = {[x EXCEPT !.remaining = @ - dt] : x \in timers}
    /\ burst' = [burst EXCEPT !.since = Min(@ + dt, wait)]
    /\ lastCall' = [op |-> "tick"]
    /\ UNCHANGED <<localStorage, state, timeout, ops, writers>>

\* seeded fault: the flush also stores the profile as the list
later_alsoList(x) ==
    /\ x \in timers
    /\ x.remaining = 0
    /\ timers' = clearTimeout(timers \ {x}, timeout)
    /\ localStorage' = [localStorage EXCEPT
                            ![CONFIG_STORAGE_KEY] = SinkText(x.args, now),
                            ![PROFILES_STORAGE_KEY] = JsonStringifyList(<<x.args>>)]
    /\ burst' = [burst EXCEPT !.flushed = Append(@, SinkText(x.args, now))]
    /\ lastCall' = [op |-> "later", args |-> x.args]
    /\ UNCHANGED <<state, timeout, now, ops, writers>>

\* later(): the callback handed to setTimeout
later(x) ==
    /\ x \in timers
    /\ x.remaining = 0
    /\ timers' = clearTimeout(timers \ {x}, timeout)
    /\ localStorage' = [localStorage EXCEPT ![CONFIG_STORAGE_KEY] = SinkText(x.args, now)]
    /\ burst' = [burst EXCEPT !.flushed = Append(@, SinkText(x.args, now))]
    /\ lastCall' = [op |-> "later", args |-> x.args]
    /\ UNCHANGED <<state, timeout, now, ops, writers>>

----------------------------------------------------------------------------
(* Inputs of the callbacks *)

StoredIds == {LocalStorageService_loadProfiles(localStorage)[i].id :
                i \in 1..Len(LocalStorageService_loadProfiles(localStorage))}

IdInputs == StoredIds \cup {MissingId}

ProfileDataInputs ==
    {[name |-> "Work"],
     [name |-> "Home", copyFromCurrent |-> TRUE],
     [name |-> "Home", copyFromCurrent |-> FALSE]}

UpdateInputs ==
    {[settings |-> "theme" :> "dark"],
     [settings |-> "lang" :> Undefined],
     [name |-> "Office"]}

\* the profiles of the autosave unit test
AutoSaveInputs ==
    {[id |-> <<1, 1>>, name |-> "Test Profile", settings |-> "theme" :> v,
      createdAt |-> 0, updatedAt |-> 0, version |-> 1] : v \in {"dark", "light", "auto"}}

\* a direct call of LocalStorageService.autoSaveCurrentProfile
autoSaveCurrentProfile(profile) ==
    /\ CanCall
    /\ Invoke(profile, Null)
    /\ lastCall' = [op |-> "autoSaveCurrentProfile", profile |-> profile]
    /\ ops' = ops + 1
    /\ UNCHANGED <<localStorage, state, now, writers>>

----------------------------------------------------------------------------
(* LocalStorageService called directly, as its unit tests do *)

\* the profiles the unit tests hand to saveCurrentProfile
TestProfiles ==
    {[id |-> <<1, 1>>, name |-> "Test Profile", settings |-> s,
      createdAt |-> 0, updatedAt |-> 0, version |-> 1] :
        s \in {("theme" :> "dark") @@ ("lang" :> "en"),
               ("theme" :> "dark") @@ ("lang" :> Undefined),
               EmptyObject}}

\* ConfigurationUpdate values: settings, name, or both
ServiceUpdateInputs ==
    UpdateInputs \cup {[name |-> "Office", settings |-> "theme" :> "light"]}

\* LocalStorageService.saveCurrentProfile(profile)
callSaveCurrentProfile(profile) ==
    /\ CanCall
    /\ localStorage' = LocalStorageService_saveCurrentProfile(localStorage, profile, now)
    /\ lastCall' = [op |-> "saveCurrentProfile", profile |-> profile]
    /\ ops' = ops + 1
    /\ NoInvoke
    /\ UNCHANGED <<state, now, writers>>

\* LocalStorageService.createProfile(profileData)
callCreateProfile(profileData, rnd) ==
    /\ CanCall
    /\ Len(LocalStorageService_loadProfiles(localStorage)) < MaxProfiles
    /\ \E t2 \in ClockReads :
       LET r == LocalStorageService_createProfile(localStorage, profileData, now, t2, rnd)
       IN  /\ localStorage' = r.ls
           /\ lastCall' = [op |-> "createProfile", profileData |-> profileData,
                           ret |-> r.ret]
    /\ ops' = ops + 1
    /\ NoInvoke
    /\ UNCHANGED <<state, now, writers>>

\* LocalStorageService.updateProfile(profileId, updates)
callUpdateProfile(profileId, updates) ==
    /\ CanCall
    /\ \E t2 \in ClockReads :
       LET r == LocalStorageService_updateProfile(localStorage, profileId, updates, now, t2)
       IN  /\ localStorage' = r.ls
           /\ lastCall' = [op |-> "updateProfile", profileId |-> profileId,
                           updates |-> updates, ret |-> r.ret]
    /\ ops' = ops + 1
    /\ NoInvoke
    /\ UNCHANGED <<state, now, writers>>

----------------------------------------------------------------------------
(* The two slots read and written directly, over a medium that can reject a
   write and beside other writers of the same origin that can leave text
   JSON.parse rejects *)

\* the profiles of the saveProfiles unit test, one with a key set to undefined
ListProfiles ==
    {[id |-> <<1, 1>>, name |-> "Profile 1", settings |-> "theme" :> "dark",
      createdAt |-> 0, updatedAt |-> 0, version |-> 1],
     [id |-> <<1, 2>>, name |-> "Profile 2",
      settings |-> ("theme" :> "light") @@ ("lang" :> Undefined),
      createdAt |-> 0, updatedAt |-> 0, version |-> 1]}

ListInputs == UNION {[1..n -> ListProfiles] : n \in 0..MaxProfiles}

\* text that is not JSON appears in a slot
externalWrite(key) ==
    /\ CanCall
    /\ localStorage[key] # Corrupt
    /\ localStorage' = [localStorage EXCEPT ![key] = Corrupt]
    /\ lastCall' = [op |-> "externalWrite", key |-> key]
    /\ ops' = ops + 1
    /\ NoInvoke
    /\ UNCHANGED <<state, now, writers>>

\* LocalStorageService.loadCurrentProfile()
callLoadCurrentProfile ==
    /\ CanCall
    /\ lastCall' = [op |-> "loadCurrentProfile",
                    ret |-> LocalStorageService_loadCurrentProfile(localStorage)]
    /\ ops' = ops + 1
    /\ NoInvoke
    /\ UNCHANGED <<localStorage, state, now, writers>>

\* LocalStorageService.loadProfiles()
callLoadProfiles ==
    /\ CanCall
    /\ lastCall' = [op |-> "loadProfiles",
                    ret |-> LocalStorageService_loadProfiles(localStorage)]
    /\ ops' = ops + 1
    /\ NoInvoke
    /\ UNCHANGED <<localStorage, state, now, writers>>

\* LocalStorageService.saveCurrentProfile(profile); accepts: the medium takes the write
trySaveCurrentProfile(profile, accepts) ==
    /\ CanCall
    /\ LET r == TrySaveCurrentProfile(localStorage, profile, now, accepts)
       IN  /\ localStorage' = r.ls
           /\ lastCall' = [op |-> "saveCurrentProfile", profile |-> profile,
                           accepts |-> accepts, threw |-> r.threw]
    /\ ops' = ops + 1
    /\ NoInvoke
    /\ UNCHANGED <<state, now, writers>>

\* LocalStorageService.saveProfiles(profiles); accepts: the medium takes the write
trySaveProfiles(profiles, accepts) ==
    /\ CanCall
    /\ LET r == TrySaveProfiles(localStorage, profiles, accepts)
       IN  /\ localStorage' = r.ls
           /\ lastCall' = [op |-> "saveProfiles", profiles |-> profiles,
                           accepts |-> accepts, threw |-> r.threw,
                           prev |-> localStorage[PROFILES_STORAGE_KEY]]
    /\ ops' = ops + 1
    /\ NoInvoke
    /\ UNCHANGED <<state, now, writers>>

\* LocalStorageService.getProfileSummaries()
callGetProfileSummaries ==
    /\ CanCall
    /\ lastCall' = [op |-> "getProfileSummaries",
                    ret |-> LocalStorageService_getProfileSummaries(localStorage)]
    /\ ops' = ops + 1
    /\ NoInvoke
    /\ UNCHANGED <<localStorage, state, now, writers>>

----------------------------------------------------------------------------
(* configurationReducer applied to actions dispatched one after another *)

\* two profiles, the first also in an edited version
ReducerProfiles ==
    {[id |-> <<1, 1>>, name |-> "Profile 1", settings |-> EmptyObject,
      createdAt |-> 0, updatedAt |-> 0, version |-> 1],
     [id |-> <<1, 1>>, name |-> "Profile 1", settings |-> "theme" :> "dark",
      createdAt |-> 0, updatedAt |-> 2500, version |-> 1],
     [id |-> <<1, 2>>, name |-> "Profile 2", settings |-> "theme" :> "light",
      createdAt |-> 0, updatedAt |-> 0, version |-> 1]}

\* ConfigurationAction values: those without a profile in the payload
SignalActions ==
    {[type |-> "LOAD_START"], [type |-> "SAVE_START"],
     [type |-> "SAVE_ERROR", payload |-> "Failed to save configuration: quota"]}

\* LOAD_SUCCESS payloads
LoadActions ==
    {[type |-> "LOAD_SUCCESS", payload |-> [currentProfile |-> c, profiles |-> l]] :
        c \in {Null} \cup ReducerProfiles,
        l \in {<<>>} \cup {<<x>> : x \in ReducerProfiles}}

\* CREATE_PROFILE_SUCCESS and SAVE_SUCCESS payloads
ProfileActions ==
    {[type |-> t, payload |-> x] :
        t \in {"CREATE_PROFILE_SUCCESS", "SAVE_SUCCESS"}, x \in ReducerProfiles}

\* dispatch(action)
dispatch(action) ==
    /\ CanCall
    /\ state' = configurationReducer(state, action)
    /\ lastCall' = [op |-> "dispatch", action |-> action]
    /\ ops' = ops + 1
    /\ NoInvoke
    /\ UNCHANGED <<localStorage, now, writers>>

----------------------------------------------------------------------------
(* createProfile run by two callers that share the store, e.g. two tabs: the
   list is read in one step and written back in another, so the other caller's
   steps can fall in between *)

\* createProfile up to `const existingProfiles = this.loadProfiles()`
createProfile_load(w, profileData, rnd) ==
    /\ CanCall
    /\ writers.proc[w] = Idle
    /\ Len(writers.returned) + Cardinality({x \in Writers : writers.proc[x] # Idle})
            < MaxProfiles
    /\ writers' =
            [proc |-> [x \in Writers |->
                        IF x = w
                        THEN [pc |-> "loaded",
                              newProfile |-> NewProfile(localStorage, profileData, now, rnd),
                              existingProfiles |->
                                    LocalStorageService_loadProfiles(localStorage)]
                        ELSE writers.proc[x]],
             returned |-> writers.returned,
             overlapped |-> writers.overlapped
                            \/ \E x \in Writers \ {w} : writers.proc[x] # Idle]
    /\ lastCall' = [op |-> "createProfile_load", w |-> w]
    /\ ops' = ops + 1
    /\ NoInvoke
    /\ UNCHANGED <<localStorage, state, now>>

\* seeded fault: the list is written back without the new profile
createProfile_save_noAppend(w) ==
    /\ NoTimerDue
    /\ writers.proc[w] # Idle
    /\ LET me == writers.proc[w]
           ls1 == LocalStorageService_saveProfiles(localStorage, me.existingProfiles)
       IN  /\ localStorage' = ls1
           /\ writers' =
                    [proc |-> [x \in Writers |-> IF x = w THEN Idle ELSE writers.proc[x]],
                     returned |-> Append(writers.returned, me.newProfile),
                     overlapped |-> writers.overlapped]
           /\ lastCall' = [op |-> "createProfile_save", w |-> w, ret |-> me.newProfile]
    /\ NoInvoke
    /\ UNCHANGED <<state, now, ops>>

\* createProfile from `[...existingProfiles, newProfile]` to its return
createProfile_save(w) ==
    /\ NoTimerDue
    /\ writers.proc[w] # Idle
    /\ \E t2 \in ClockReads :
       LET me == writers.proc[w]
           ls1 == LocalStorageService_saveProfiles(localStorage,
                        Append(me.existingProfiles, me.newProfile))
       IN  /\ localStorage' =
                    IF Len(me.existingProfiles) = 0
                    THEN LocalStorageService_saveCurrentProfile(ls1, me.newProfile, t2)
                    ELSE ls1
           /\ writers' =
                    [proc |-> [x \in Writers |-> IF x = w THEN Idle ELSE writers.proc[x]],
                     returned |-> Append(writers.returned, me.newProfile),
                     overlapped |-> writers.overlapped]
           /\ lastCall' = [op |-> "createProfile_save", w |-> w, ret |-> me.newProfile]
    /\ NoInvoke
    /\ UNCHANGED <<state, now, ops>>

----------------------------------------------------------------------------
(* The provider mounted over a store that an earlier session left *)

\* the profiles the integration tests put in the store before mounting
PersistedProfiles ==
    <<[id |-> <<0, 3>>, name |-> "Test Profile",
       settings |-> ("theme" :> "dark") @@ ("lang" :> "en"),
       createdAt |-> 0, updatedAt |-> 0, version |-> 1],
      [id |-> <<0, 4>>, name |-> "Other Profile", settings |-> "theme" :> "light",
       createdAt |-> 0, updatedAt |-> 0, version |-> 1]>>

\* what the store holds at mount: each slot written or never written
PersistedStores ==
    {[k \in {CONFIG_STORAGE_KEY, PROFILES_STORAGE_KEY} |->
        IF k = CONFIG_STORAGE_KEY
        THEN (IF hasPointer THEN JsonStringifyProfile(PersistedProfiles[1]) ELSE Absent)
        ELSE (IF hasList THEN JsonStringifyList(PersistedProfiles) ELSE Absent)] :
            hasPointer \in BOOLEAN, hasList \in BOOLEAN}

\* the state once the mount effect's loadConfig has run
InitSession ==
    /\ localStorage \in PersistedStores
    /\ state = configurationReducer(
                    configurationReducer(initialState, [type |-> "LOAD_START"]),
                    [type |-> "LOAD_SUCCESS",
                     payload |-> [currentProfile |->
                                        LocalStorageService_loadCurrentProfile(localStorage),
                                  profiles |->
                                        LocalStorageService_loadProfiles(localStorage)]])
    /\ timers = {}
    /\ timeout = NoTimeout
    /\ now = 0
    /\ burst = NoBurst
    /\ lastCall = [op |-> "init"]
    /\ ops = 0
    /\ writers = NoWriters

----------------------------------------------------------------------------
(* The provider's writing callbacks over a medium that may reject a setItem *)

\* seeded fault: a storage error leaves saveConfig before SAVE_ERROR is dispatched
trySaveConfig_noSaveError(updates, acc) ==
    /\ CanCall
    /\ \E t2 \in ClockReads :
       LET st1 == configurationReducer(state, [type |-> "SAVE_START"])
           r == TryUpdateProfile(localStorage, state.currentProfile.id, updates, now, t2,
                                 acc)
       IN  IF state.currentProfile = Null
           THEN /\ state' = configurationReducer(st1, [type |-> "SAVE_ERROR",
                        payload |-> "Failed to save configuration: No current profile to save"])
                /\ lastCall' = [op |-> "saveConfig", updates |-> updates, ret |-> "throw",
                                storage |-> FALSE]
                /\ UNCHANGED localStorage
           ELSE IF r.threw
           THEN /\ state' = st1
                /\ lastCall' = [op |-> "saveConfig", updates |-> updates, ret |-> "throw",
                                storage |-> TRUE]
                /\ localStorage' = r.ls
           ELSE IF r.ret = Null
           THEN /\ state' = configurationReducer(st1, [type |-> "SAVE_ERROR",
                        payload |-> "Failed to save configuration: Failed to update profile"])
                /\ lastCall' = [op |-> "saveConfig", updates |-> updates, ret |-> "throw",
                                storage |-> FALSE]
                /\ localStorage' = r.ls
           ELSE /\ state' = configurationReducer(st1,
                        [type |-> "SAVE_SUCCESS", payload |-> r.ret])
                /\ lastCall' = [op |-> "saveConfig", updates |-> updates, ret |-> "ok",
                                storage |-> FALSE]
                /\ localStorage' = r.ls
    /\ ops' = ops + 1
    /\ NoInvoke
    /\ UNCHANGED <<now, writers>>

\* saveConfig(updates); storage tells whether the error raised is a storage error
trySaveConfig(updates, acc) ==
    /\ CanCall
    /\ \E t2 \in ClockReads :
       LET st1 == configurationReducer(state, [type |-> "SAVE_START"])
           r == TryUpdateProfile(localStorage, state.currentProfile.id, updates, now, t2,
                                 acc)
       IN  IF state.currentProfile = Null
           THEN /\ state' = configurationReducer(st1, [type |-> "SAVE_ERROR",
                        payload |-> "Failed to save configuration: No current profile to save"])
                /\ lastCall' = [op |-> "saveConfig", updates |-> updates, ret |-> "throw",
                                storage |-> FALSE]
                /\ UNCHANGED localStorage
           ELSE IF r.threw
           THEN /\ state' = configurationReducer(st1, [type |-> "SAVE_ERROR",
                        payload |-> "Failed to save configuration: Failed to save"])
                /\ lastCall' = [op |-> "saveConfig", updates |-> updates, ret |-> "throw",
                                storage |-> TRUE]
                /\ localStorage' = r.ls
           ELSE IF r.ret = Null
           THEN /\ state' = configurationReducer(st1, [type |-> "SAVE_ERROR",
                        payload |-> "Failed to save configuration: Failed to update profile"])
                /\ lastCall' = [op |-> "saveConfig", updates |-> updates, ret |-> "throw",
                                storage |-> FALSE]
                /\ localStorage' = r.ls
           ELSE /\ state' = configurationReducer(st1,
                        [type |-> "SAVE_SUCCESS", payload |-> r.ret])
                /\ lastCall' = [op |-> "saveConfig", updates |-> updates, ret |-> "ok",
                                storage |-> FALSE]
                /\ localStorage' = r.ls
    /\ ops' = ops + 1
    /\ NoInvoke
    /\ UNCHANGED <<now, writers>>

\* createProfile(profileData)
tryCreateProfile(profileData, rnd, acc) ==
    /\ CanCall
    /\ Len(LocalStorageService_loadProfiles(localStorage)) < MaxProfiles
    /\ \E t2 \in ClockReads :
       LET r == TryCreateProfile(localStorage, profileData, now, t2, rnd, acc)
       IN  /\ localStorage' = r.ls
           /\ state' = IF r.threw
                       THEN configurationReducer(state, [type |-> "LOAD_ERROR",
                                payload |-> "Failed to create profile: Failed to save"])
                       ELSE configurationReducer(state,
                                [type |-> "CREATE_PROFILE_SUCCESS", payload |-> r.ret])
           /\ lastCall' = [op |-> "createProfile", profileData |-> profileData,
                           ret |-> IF r.threw THEN "throw" ELSE "ok", storage |-> r.threw]
    /\ ops' = ops + 1
    /\ NoInvoke
    /\ UNCHANGED <<now, writers>>

\* deleteProfile(profileId)
tryDeleteProfile(profileId, acc) ==
    /\ CanCall
    /\ LET r == TryDeleteProfile(localStorage, profileId, now, acc)
       IN  /\ localStorage' = r.ls
           /\ state' = IF r.threw
                       THEN configurationReducer(state, [type |-> "LOAD_ERROR",
                                payload |-> "Failed to delete profile: Failed to save"])
                       ELSE IF r.ret
                       THEN configurationReducer(state,
                                [type |-> "DELETE_PROFILE_SUCCESS", payload |-> profileId])
                       ELSE configurationReducer(state, [type |-> "LOAD_ERROR",
                                payload |-> "Failed to delete profile: Failed to delete profile"])
           /\ lastCall' = [op |-> "deleteProfile", profileId |-> profileId,
                           ret |-> IF r.threw \/ ~r.ret THEN "throw" ELSE "ok",
                           storage |-> r.threw]
    /\ ops' = ops + 1
    /\ NoInvoke
    /\ UNCHANGED <<now, writers>>

----------------------------------------------------------------------------
(* Specifications *)

Next ==
    \/ loadConfig
    \/ \E u \in UpdateInputs : saveConfig(u)
    \/ \E pd \in ProfileDataInputs, rnd \in RandVals : createProfile(pd, rnd)
    \/ \E id \in IdInputs : switchProfile(id)
    \/ \E id \in IdInputs : deleteProfile(id)
    \/ \E k \in Keys, v \in Vals : updateSetting(k, v)
    \/ \E dt \in Steps : Tick(dt)
    \/ \E x \in timers : later(x)

\* the provider over an initially empty store
Spec == Init /\ [][Next]_vars

NextCoalescer ==
    \/ \E p \in AutoSaveInputs : autoSaveCurrentProfile(p)
    \/ \E dt \in Steps : Tick(dt)
    \/ \E x \in timers : later(x)

\* the service's autosave called directly, as its unit test does
SpecCoalescer == Init /\ [][NextCoalescer]_vars

NextService ==
    \/ \E p \in TestProfiles : callSaveCurrentProfile(p)
    \/ \E pd \in ProfileDataInputs, rnd \in RandVals : callCreateProfile(pd, rnd)
    \/ \E id \in IdInputs, u \in ServiceUpdateInputs : callUpdateProfile(id, u)
    \/ \E dt \in Steps : Tick(dt)

\* the service's profile operations called directly on an initially empty store
SpecService == Init /\ [][NextService]_vars

NextRace ==
    \/ \E w \in Writers, pd \in ProfileDataInputs, rnd \in RandVals :
            createProfile_load(w, pd, rnd)
    \/ \E w \in Writers : createProfile_save(w)
    \/ \E dt \in Steps : Tick(dt)

\* two callers of createProfile over one initially empty store
SpecRace == Init /\ [][NextRace]_vars

NextStore ==
    \/ \E key \in {CONFIG_STORAGE_KEY, PROFILES_STORAGE_KEY} : externalWrite(key)
    \/ callLoadCurrentProfile
    \/ callLoadProfiles
    \/ \E p \in TestProfiles, accepts \in BOOLEAN : trySaveCurrentProfile(p, accepts)
    \/ \E l \in ListInputs, accepts \in BOOLEAN : trySaveProfiles(l, accepts)
    \/ callGetProfileSummaries
    \/ \E dt \in Steps : Tick(dt)

\* the slots of an initially empty store read and written directly
SpecStore == Init /\ [][NextStore]_vars

NextReducer ==
    \/ \E action \in SignalActions : dispatch(action)
    \/ \E action \in LoadActions : dispatch(action)
    \/ \E action \in ProfileActions : dispatch(action)

\* the reducer alone, from initialState
SpecReducer == Init /\ [][NextReducer]_vars

NextSession ==
    \/ loadConfig
    \/ \E u \in UpdateInputs : saveConfig(u)
    \/ \E id \in IdInputs : switchProfile(id)
    \/ \E k \in Keys, v \in Vals : updateSetting(k, v)
    \/ \E dt \in Steps : Tick(dt)
    \/ \E x \in timers : later(x)

\* a session of loading, editing, saving and switching over a persisted store
SpecSession == InitSession /\ [][NextSession]_vars

NextFaulty ==
    \/ loadConfig
    \/ \E u \in UpdateInputs, acc \in Accepts : trySaveConfig(u, acc)
    \/ \E pd \in ProfileDataInputs, rnd \in RandVals, acc \in Accepts :
            tryCreateProfile(pd, rnd, acc)
    \/ \E id \in IdInputs, acc \in Accepts : tryDeleteProfile(id, acc)

\* a session over a persisted store whose medium may reject writes
SpecFaulty == InitSession /\ [][NextFaulty]_vars

NextBatch ==
    \/ \E k \in Keys, v \in Vals : updateSetting(k, v)
    \/ \E k1 \in Keys, v1 \in Vals, k2 \in Keys, v2 \in Vals :
            updateSettingBatch(k1, v1, k2, v2)
    \/ \E dt \in Steps : Tick(dt)
    \/ \E x \in timers : later(x)

\* a session of edits only, one or two per event, over a persisted store
SpecBatch == InitSession /\ [][NextBatch]_vars

----------------------------------------------------------------------------
(* Shorthands for the properties *)

Pointer == LocalStorageService_loadCurrentProfile(localStorage)
List == LocalStorageService_loadProfiles(localStorage)
PointerNext == LocalStorageService_loadCurrentProfile(localStorage')
ListNext == LocalStorageService_loadProfiles(localStorage')

----------------------------------------------------------------------------
\* C1: the current-pointer slot is empty or holds a profile whose id is the id
\* of an entry of the durable profile list, in every reachable state.
C1_PointerInList ==
    Pointer # Null => \E i \in 1..Len(List) : List[i].id = Pointer.id

----------------------------------------------------------------------------
\* C2: while less than the delay has elapsed since the most recent autosave
\* invocation, the burst has caused no durable write.
C2_NoWriteBeforeDelay ==
    (burst.n > 0 /\ burst.since < wait) => burst.flushed = <<>>

\* three invocations, 2500 ms later: nothing written, the pointer slot still absent
C2_Witness ==
    /\ burst.n = 3
    /\ burst.since = 2500
    /\ burst.flushed = <<>>
    /\ localStorage[CONFIG_STORAGE_KEY] = Absent

----------------------------------------------------------------------------
\* C3: once a burst has been followed by the full delay of quiescence and its
\* timer has run, exactly one write was made, and it carries the argument of
\* the last invocation with updatedAt stamped at flush time.
C3_LastWriteWins ==
    (burst.n > 0 /\ burst.since >= wait /\ timers = {}) =>
        /\ Len(burst.flushed) = 1
        /\ JsonParse(burst.flushed[1]) =
                JsonProfile([burst.lastArg EXCEPT !.updatedAt = burst.lastAt + wait])

\* a burst of three invocations with different arguments, spread over time,
\* has been flushed
C3_Witness ==
    /\ burst.n = 3
    /\ burst.lastAt > 0
    /\ Len(burst.flushed) = 1
    /\ lastCall.op = "later"
    /\ Pointer.settings = burst.lastArg.settings
    /\ Pointer.updatedAt = now

----------------------------------------------------------------------------
\* C4: at most one timer is pending, and the timer that runs is the one the
\* most recent invocation scheduled: a cancelled flush never fires.
C4_SingleTimer ==
    /\ Cardinality(timers) <= 1
    /\ \A x \in timers : x.handle = timeout /\ x.args = burst.lastArg
    /\ lastCall.op = "later" => lastCall.args = burst.lastArg

\* an invocation has replaced a timer that was still pending
C4_Witness ==
    /\ burst.n >= 2
    /\ burst.since > 0
    /\ Cardinality(timers) = 1

----------------------------------------------------------------------------
\* C5: updateSetting(k, v) on a current profile makes getSetting(k) return v at
\* once and leaves the durable store as it was; the flush that runs once the
\* delay has elapsed stores the profile with settings[k] = v and a refreshed
\* updatedAt.
C5_Step ==
    /\ (lastCall'.op = "updateSetting" /\ state.currentProfile # Null) =>
            /\ getSetting(state', lastCall'.key) = lastCall'.value
            /\ localStorage' = localStorage
            /\ \E x \in timers' : x.remaining = wait
    /\ (lastCall'.op = "later" /\ burst.edit # Null) =>
            /\ burst.since >= wait
            /\ PointerNext.id = burst.lastArg.id
            /\ Get(PointerNext.settings, burst.edit.key) = burst.edit.value
            /\ PointerNext.updatedAt = now
            /\ PointerNext.updatedAt > burst.lastArg.updatedAt
            /\ Pointer # Null => PointerNext.updatedAt > Pointer.updatedAt

C5_StaleThenFlushed == [][C5_Step]_vars

\* the edit "light" has reached the pointer slot, 5000 ms after updateSetting
C5_Witness ==
    /\ lastCall.op = "later"
    /\ burst.edit # Null
    /\ burst.edit.value = "light"
    /\ Get(Pointer.settings, burst.edit.key) = "light"
    /\ getSetting(state, burst.edit.key) = "light"
    /\ Pointer.updatedAt = burst.lastAt + wait

----------------------------------------------------------------------------
\* C6: once switchProfile has returned successfully, no coalesced write remains
\* pending: the pending autosave was flushed before the switch-out flush.
C6_NoPendingAfterSwitch ==
    (lastCall.op = "switchProfile" /\ lastCall.ret = "ok") => timers = {}

----------------------------------------------------------------------------
\* C7: a successful switchProfile(id) writes the outgoing in-memory current
\* profile (if any) and then the target list entry to the pointer slot; on
\* return the pointer slot holds the target id, the in-memory currentProfile is
\* the target, and neither the durable nor the in-memory list has changed.
C7_Step ==
    (lastCall'.op = "switchProfile" /\ lastCall'.ret = "ok") =>
        LET target == List[FindIndex(List, lastCall'.profileId)]
            out == JsonStringifyProfile([state.currentProfile EXCEPT !.updatedAt = now])
            in == JsonStringifyProfile([target EXCEPT !.updatedAt = now])
        IN  /\ lastCall'.writes = IF state.currentProfile # Null
                                  THEN <<out, in>> ELSE <<in>>
            /\ localStorage'[CONFIG_STORAGE_KEY] = in
            /\ PointerNext.id = lastCall'.profileId
            /\ state'.currentProfile = target
            /\ ListNext = List
            /\ state'.profiles = state.profiles

C7_SwitchWritesOutgoingThenTarget == [][C7_Step]_vars

\* a switch from one profile to another one
C7_Witness ==
    /\ lastCall.op = "switchProfile"
    /\ lastCall.ret = "ok"
    /\ Len(lastCall.writes) = 2
    /\ JsonParse(lastCall.writes[1]).id # lastCall.profileId
    /\ Pointer.id = lastCall.profileId
    /\ state.currentProfile.id = lastCall.profileId

----------------------------------------------------------------------------
\* C8: switchProfile(id) with an id absent from the durable list fails and
\* writes nothing: both slots, the in-memory currentProfile and profiles are
\* unchanged; only error is set and loading is false.
C8_Step ==
    (lastCall'.op = "switchProfile"
        /\ \A i \in 1..Len(List) : List[i].id # lastCall'.profileId) =>
        /\ lastCall'.ret = "throw"
        /\ lastCall'.writes = <<>>
        /\ localStorage' = localStorage
        /\ state'.currentProfile = state.currentProfile
        /\ state'.profiles = state.profiles
        /\ state'.error # NoError
        /\ state'.loading = FALSE

C8_SwitchMissingWritesNothing == [][C8_Step]_vars

\* a failed switch while a profile is current
C8_Witness ==
    /\ lastCall.op = "switchProfile"
    /\ lastCall.ret = "throw"
    /\ state.currentProfile # Null
    /\ Pointer # Null
    /\ state.error # NoError

----------------------------------------------------------------------------
\* C9: deleting the profile held in the pointer slot repoints the slot to the
\* first remaining list entry, or clears it when none remains; deleting a
\* profile that is not current leaves the pointer slot unchanged.
C9_Step ==
    lastCall'.op = "deleteProfile" =>
        LET id == lastCall'.profileId
            rest == {i \in 1..Len(List) : List[i].id # id}
            first == CHOOSE i \in rest : \A j \in rest : i <= j
        IN  /\ (lastCall'.ret /\ Pointer # Null /\ Pointer.id = id) =>
                    IF rest # {}
                    THEN PointerNext = [List[first] EXCEPT !.updatedAt = now]
                    ELSE localStorage'[CONFIG_STORAGE_KEY] = Absent
            /\ (Pointer = Null \/ Pointer.id # id) =>
                    localStorage'[CONFIG_STORAGE_KEY] = localStorage[CONFIG_STORAGE_KEY]

C9_DeleteRepointsCurrent == [][C9_Step]_vars

\* the current profile was deleted and the pointer moved to the remaining one
C9_Witness ==
    /\ lastCall.op = "deleteProfile"
    /\ lastCall.ret
    /\ Len(List) = 1
    /\ Pointer # Null
    /\ Pointer.id = List[1].id
    /\ Pointer.id # lastCall.profileId
    /\ Pointer.updatedAt = now
    /\ now > List[1].updatedAt

----------------------------------------------------------------------------
\* C10: deleteProfile(id) returns false and changes neither slot when id is
\* absent from the list; otherwise it returns true and the new list is the old
\* one with exactly that entry removed, the others keeping their order.
C10_Step ==
    lastCall'.op = "deleteProfile" =>
        LET id == lastCall'.profileId
        IN  IF \A i \in 1..Len(List) : List[i].id # id
            THEN /\ lastCall'.ret = FALSE
                 /\ localStorage' = localStorage
            ELSE /\ lastCall'.ret = TRUE
                 /\ \E i \in 1..Len(List) :
                        /\ List[i].id = id
                        /\ ListNext = [j \in 1..(Len(List) - 1) |->
                                            IF j < i THEN List[j] ELSE List[j + 1]]

C10_DeleteRemovesExactlyOne == [][C10_Step]_vars

----------------------------------------------------------------------------
\* C11: when the provider's deleteProfile removes the profile that is current
\* both in memory and in the pointer slot while other profiles remain, the
\* in-memory currentProfile becomes null whereas the pointer slot holds the
\* first remaining list entry: the two layers differ afterwards.
C11_Step ==
    (/\ lastCall'.op = "deleteProfile"
     /\ lastCall'.ret
     /\ state.currentProfile # Null
     /\ state.currentProfile.id = lastCall'.profileId
     /\ Pointer # Null
     /\ Pointer.id = lastCall'.profileId
     /\ Len(ListNext) > 0) =>
        /\ state'.currentProfile = Null
        /\ PointerNext # Null
        /\ PointerNext = [ListNext[1] EXCEPT !.updatedAt = now]
        /\ state'.currentProfile # PointerNext

C11_DeleteDivergesLayers == [][C11_Step]_vars

\* the profile current in memory was deleted, another one remains: memory holds
\* no current profile, the pointer slot holds the remaining one
C11_Witness ==
    /\ lastCall.op = "deleteProfile"
    /\ lastCall.ret
    /\ lastCall.mem # Null
    /\ lastCall.mem.id = lastCall.profileId
    /\ state.currentProfile = Null
    /\ Len(List) > 0
    /\ Pointer # Null
    /\ Pointer.id = List[1].id
    /\ Pointer.id # lastCall.profileId

----------------------------------------------------------------------------
\* C12: updateProfile(id, u) on an existing profile leaves the entry with its
\* previous settings overridden by u.settings: every key of u.settings reads
\* the value from u, every other previous key keeps its value, no other key
\* appears; the name is replaced only when u supplies one; every other list
\* entry is unchanged and keeps its position.
C12_Step ==
    (lastCall'.op = "updateProfile" /\ FindIndex(List, lastCall'.profileId) # 0) =>
        LET i == FindIndex(List, lastCall'.profileId)
            u == lastCall'.updates
            s == IF "settings" \in DOMAIN u THEN u.settings ELSE EmptyObject
            old == List[i]
            new == ListNext[i]
        IN  /\ Len(ListNext) = Len(List)
            /\ \A k \in DOMAIN s :
                    /\ Get(new.settings, k) = s[k]
                    /\ Get(lastCall'.ret.settings, k) = s[k]
            /\ \A k \in DOMAIN old.settings \ DOMAIN s :
                    /\ Get(new.settings, k) = old.settings[k]
                    /\ Get(lastCall'.ret.settings, k) = old.settings[k]
            /\ DOMAIN new.settings \subseteq DOMAIN old.settings \cup DOMAIN s
            /\ new.name = IF "name" \in DOMAIN u THEN u.name ELSE old.name
            /\ new.id = old.id
            /\ \A j \in 1..Len(List) : j # i => ListNext[j] = List[j]

C12_UpdateMergesSettings == [][C12_Step]_vars

\* an update that names one settings key and no name: the entry took the
\* value for that key and kept another key it had before
C12_Witness ==
    /\ lastCall.op = "updateProfile"
    /\ lastCall.ret # Null
    /\ "settings" \in DOMAIN lastCall.updates
    /\ "name" \notin DOMAIN lastCall.updates
    /\ \E k \in DOMAIN lastCall.ret.settings : k \notin DOMAIN lastCall.updates.settings
    /\ \E k \in DOMAIN lastCall.updates.settings :
            lastCall.ret.settings[k] = lastCall.updates.settings[k]

----------------------------------------------------------------------------
\* C13: updateProfile(id, u) with an id that no list entry has returns null
\* and writes nothing: both storage slots are unchanged.
C13_Step ==
    (lastCall'.op = "updateProfile" /\ FindIndex(List, lastCall'.profileId) = 0) =>
        /\ lastCall'.ret = Null
        /\ localStorage' = localStorage

C13_UpdateMissingWritesNothing == [][C13_Step]_vars

\* an update of an absent id was made on a store that holds a list and a pointer
C13_Witness ==
    /\ lastCall.op = "updateProfile"
    /\ lastCall.ret = Null
    /\ FindIndex(List, lastCall.profileId) = 0
    /\ Len(List) > 0
    /\ Pointer # Null

----------------------------------------------------------------------------
\* C14: after updateProfile(id, u) where id is the id of the profile in the
\* pointer slot, the pointer slot equals the updated list entry in every
\* field, updatedAt included; for any other id the pointer slot is unchanged.
C14_Step ==
    (lastCall'.op = "updateProfile" /\ FindIndex(List, lastCall'.profileId) # 0) =>
        IF Pointer # Null /\ Pointer.id = lastCall'.profileId
        THEN PointerNext = ListNext[FindIndex(List, lastCall'.profileId)]
        ELSE localStorage'[CONFIG_STORAGE_KEY] = localStorage[CONFIG_STORAGE_KEY]

C14_PointerIdenticalToEntry == [][C14_Step]_vars

----------------------------------------------------------------------------
\* C15: createProfile on an empty list writes the new profile to the pointer
\* slot; on a non-empty list it leaves the pointer slot unchanged; in both
\* cases the new profile is the last list entry and the entries before it are
\* unchanged.
C15_Step ==
    lastCall'.op = "createProfile" =>
        LET new == JsonProfile(lastCall'.ret)
        IN  /\ ListNext = Append(List, new)
            /\ IF Len(List) = 0
               THEN /\ PointerNext # Null
                    /\ \E t2 \in ClockReads : PointerNext = [new EXCEPT !.updatedAt = t2]
               ELSE localStorage'[CONFIG_STORAGE_KEY] = localStorage[CONFIG_STORAGE_KEY]

C15_CreateAppendsAndFirstIsCurrent == [][C15_Step]_vars

\* a second profile was created while the pointer slot held the first one: the
\* list has both in creation order, the pointer still names the first
C15_Witness ==
    /\ lastCall.op = "createProfile"
    /\ Len(List) = 2
    /\ List[2] = JsonProfile(lastCall.ret)
    /\ Pointer # Null
    /\ Pointer.id = List[1].id
    /\ Pointer.id # List[2].id

----------------------------------------------------------------------------
\* C16: createProfile with copyFromCurrent true or omitted stores a new profile
\* whose settings equal those of the profile in the pointer slot at call time;
\* with copyFromCurrent false, or with an empty pointer slot, the settings are
\* empty. The copy is by value: no later step changes the settings of two
\* list entries at once, and a step that writes only the pointer slot
\* (an autosave flush) or only the in-memory profile (updateSetting) changes
\* no list entry.
C16_Step ==
    /\ lastCall'.op = "createProfile" =>
            /\ lastCall'.ret.settings =
                    IF CopyFromCurrent(lastCall'.profileData) /\ Pointer # Null
                    THEN Pointer.settings
                    ELSE EmptyObject
            /\ ListNext[Len(ListNext)].settings = lastCall'.ret.settings
    /\ Len(ListNext) = Len(List) =>
            \A i, j \in 1..Len(List) :
                (i # j /\ ListNext[i].settings # List[i].settings) =>
                    ListNext[j].settings = List[j].settings
    /\ lastCall'.op \in {"later", "updateSetting"} => ListNext = List

C16_CopyFromCurrentByValue == [][C16_Step]_vars

\* a second profile was created as a copy of a current profile that has
\* settings: it carries the same settings
C16_Witness ==
    /\ lastCall.op = "createProfile"
    /\ CopyFromCurrent(lastCall.profileData)
    /\ lastCall.ret.settings # EmptyObject
    /\ Len(List) = 2
    /\ List[2].id = lastCall.ret.id
    /\ Pointer # Null
    /\ Pointer.id = List[1].id
    /\ List[2].settings = Pointer.settings

----------------------------------------------------------------------------
\* C17: in every reachable state no two entries of the stored profile list
\* have the same id.
C17_UniqueIds ==
    \A i, j \in 1..Len(List) : i # j => List[i].id # List[j].id

----------------------------------------------------------------------------
\* C18: when createProfile calls never overlap (one sequential caller), the
\* stored list is exactly the sequence of returned profiles, so every returned
\* profile is in the list and each call grew the list by one. When two callers
\* overlap, every list entry is still a returned or pending profile, but a
\* returned profile may be missing (shown by the witness).
C18_SequentialCreatesAllKept ==
    LET done == writers.returned
        pending == {writers.proc[w].newProfile : w \in {x \in Writers : writers.proc[x] # Idle}}
    IN  /\ \A i \in 1..Len(List) :
                \/ \E k \in 1..Len(done) : List[i] = JsonProfile(done[k])
                \/ \E p \in pending : List[i] = JsonProfile(p)
        /\ ~writers.overlapped =>
                /\ Len(List) = Len(done)
                /\ \A k \in 1..Len(done) : List[k] = JsonProfile(done[k])

\* a lost creation: two overlapping calls have both returned a profile, with
\* different ids, and the stored list holds only one of them
C18_Witness ==
    /\ \A w \in Writers : writers.proc[w] = Idle
    /\ Len(writers.returned) = 2
    /\ writers.returned[1].id # writers.returned[2].id
    /\ writers.overlapped
    /\ Len(List) = 1
    /\ List[1].id = writers.returned[2].id

----------------------------------------------------------------------------
\* C19: saveCurrentProfile(p) followed by loadCurrentProfile() returns a
\* profile whose updatedAt is the clock value at save time and whose id, name,
\* settings, createdAt and version are those of p. Settings are compared as the
\* program reads them, key by key: a key whose value is undefined reads the
\* same as a key that is not there.
C19_Step ==
    lastCall'.op = "saveCurrentProfile" =>
        LET p == lastCall'.profile
            q == LocalStorageService_loadCurrentProfile(localStorage')
        IN  /\ q # Null
            /\ q.updatedAt = now
            /\ q.id = p.id
            /\ q.name = p.name
            /\ \A k \in DOMAIN p.settings \cup DOMAIN q.settings :
                    Get(q.settings, k) = Get(p.settings, k)
            /\ q.createdAt = p.createdAt
            /\ q.version = p.version

----------------------------------------------------------------------------
\* C20, as stated: saveCurrentProfile(p) followed by loadCurrentProfile()
\* returns a profile equal to p in every field, updatedAt included.
C20_OriginalStep ==
    lastCall'.op = "saveCurrentProfile" =>
        LET p == lastCall'.profile
            q == LocalStorageService_loadCurrentProfile(localStorage')
        IN  /\ q # Null
            /\ q.id = p.id
            /\ q.name = p.name
            /\ \A k \in DOMAIN p.settings \cup DOMAIN q.settings :
                    Get(q.settings, k) = Get(p.settings, k)
            /\ q.createdAt = p.createdAt
            /\ q.updatedAt = p.updatedAt
            /\ q.version = p.version

C20_AmendedStep ==
    lastCall'.op = "saveCurrentProfile" =>
        LET p == lastCall'.profile
            q == LocalStorageService_loadCurrentProfile(localStorage')
        IN  /\ q = JsonProfile([p EXCEPT !.updatedAt = now])
            /\ (q = JsonProfile(p)) <=> (p.updatedAt = now)

----------------------------------------------------------------------------
\* C21: loadCurrentProfile() returns null and loadProfiles() returns the empty
\* sequence both when the slot was never written and when it holds text that
\* cannot be decoded; nothing is raised, so the caller sees the same result in
\* the two cases.
C21_Step ==
    /\ (lastCall'.op = "loadCurrentProfile"
            /\ localStorage[CONFIG_STORAGE_KEY] \in {Absent, Corrupt}) =>
                lastCall'.ret = Null
    /\ (lastCall'.op = "loadProfiles"
            /\ localStorage[PROFILES_STORAGE_KEY] \in {Absent, Corrupt}) =>
                lastCall'.ret = <<>>
    /\ lastCall'.op = "loadCurrentProfile" => lastCall'.ret # Thrown
    /\ lastCall'.op \in {"loadCurrentProfile", "loadProfiles"} =>
            localStorage' = localStorage

C21_LoadDegradesSilently == [][C21_Step]_vars

\* the pointer slot held a profile, then undecodable text: the load returned null
C21_Witness ==
    /\ lastCall.op = "loadCurrentProfile"
    /\ localStorage[CONFIG_STORAGE_KEY] = Corrupt
    /\ localStorage[PROFILES_STORAGE_KEY] # Absent
    /\ lastCall.ret = Null

----------------------------------------------------------------------------
\* C22: saveProfiles(l) replaces the whole list slot whatever it held:
\* loadProfiles() then returns the entries of l in the order of l, each with
\* its own updatedAt (not restamped) and its other fields, settings read key
\* by key; the pointer slot is unchanged.
C22_Step ==
    (lastCall'.op = "saveProfiles" /\ lastCall'.accepts) =>
        LET l == lastCall'.profiles
            got == LocalStorageService_loadProfiles(localStorage')
        IN  /\ Len(got) = Len(l)
            /\ \A i \in 1..Len(l) :
                    /\ got[i].id = l[i].id
                    /\ got[i].name = l[i].name
                    /\ got[i].createdAt = l[i].createdAt
                    /\ got[i].updatedAt = l[i].updatedAt
                    /\ got[i].version = l[i].version
                    /\ \A k \in DOMAIN l[i].settings \cup DOMAIN got[i].settings :
                            Get(got[i].settings, k) = Get(l[i].settings, k)
            /\ localStorage'[CONFIG_STORAGE_KEY] = localStorage[CONFIG_STORAGE_KEY]

C22_SaveProfilesReplacesList == [][C22_Step]_vars

\* a one-entry list was saved, later than its updatedAt, over a slot that held
\* two entries or undecodable text: the slot now holds that one entry
C22_Witness ==
    /\ lastCall.op = "saveProfiles"
    /\ lastCall.accepts
    /\ lastCall.prev # Absent
    /\ lastCall.prev = Corrupt \/ Len(JsonParse(lastCall.prev)) = 2
    /\ Len(lastCall.profiles) = 1
    /\ Len(List) = 1
    /\ List[1].id = lastCall.profiles[1].id
    /\ List[1].updatedAt < now

----------------------------------------------------------------------------
\* C23: when the medium rejects the write, saveCurrentProfile and saveProfiles
\* raise to their caller, both slots keep their content, and nothing is left
\* scheduled that would write again.
C23_Step ==
    (lastCall'.op \in {"saveCurrentProfile", "saveProfiles"} /\ ~lastCall'.accepts) =>
        /\ lastCall'.threw
        /\ localStorage' = localStorage
        /\ timers' = {}

C23_RejectedWriteRaises == [][C23_Step]_vars

\* a save of the pointer slot was rejected: the slot still holds the profile
\* saved before, not the one just handed in
C23_Witness ==
    /\ lastCall.op = "saveCurrentProfile"
    /\ lastCall.threw
    /\ Pointer # Null
    /\ Pointer.settings # JsonSettings(lastCall.profile.settings)

----------------------------------------------------------------------------
\* C29: getProfileSummaries() returns one summary per entry of the stored
\* list, in list order, each with the id, name and updatedAt of its entry, and
\* writes nothing.
C29_Step ==
    lastCall'.op = "getProfileSummaries" =>
        /\ Len(lastCall'.ret) = Len(List)
        /\ \A i \in 1..Len(List) :
                lastCall'.ret[i] = [id |-> List[i].id, name |-> List[i].name,
                                   updatedAt |-> List[i].updatedAt]
        /\ localStorage' = localStorage

C29_SummariesFollowList == [][C29_Step]_vars

\* summaries of a stored list of two different profiles
C29_Witness ==
    /\ lastCall.op = "getProfileSummaries"
    /\ Len(lastCall.ret) = 2
    /\ lastCall.ret[1].id # lastCall.ret[2].id
    /\ lastCall.ret[1].name = List[1].name

----------------------------------------------------------------------------
\* C26: CREATE_PROFILE_SUCCESS(p) appends p as the last in-memory profile; it
\* makes p the current profile exactly when the in-memory list was empty
\* before, and leaves currentProfile alone otherwise; loading and error are
\* unchanged.
C26_Step ==
    (lastCall'.op = "dispatch" /\ lastCall'.action.type = "CREATE_PROFILE_SUCCESS") =>
        LET p == lastCall'.action.payload
        IN  /\ state'.profiles = Append(state.profiles, p)
            /\ state'.currentProfile =
                    IF Len(state.profiles) = 0 THEN p ELSE state.currentProfile
            /\ state'.loading = state.loading
            /\ state'.error = state.error

C26_CreateSuccessAppends == [][C26_Step]_vars

\* a profile was appended to a non-empty list while another one was current
\* and an error was shown: the current profile and the error stayed
C26_Witness ==
    /\ lastCall.op = "dispatch"
    /\ lastCall.action.type = "CREATE_PROFILE_SUCCESS"
    /\ Len(state.profiles) = 2
    /\ state.profiles[2] = lastCall.action.payload
    /\ state.currentProfile # Null
    /\ state.currentProfile.id # lastCall.action.payload.id
    /\ state.error # NoError

----------------------------------------------------------------------------
\* C28: SAVE_SUCCESS(p) sets loading to false and currentProfile to p, and
\* puts p in the place of every in-memory entry whose id is p.id; the list
\* keeps its length and order, and is unchanged when no entry has p.id.
C28_Step ==
    (lastCall'.op = "dispatch" /\ lastCall'.action.type = "SAVE_SUCCESS") =>
        LET p == lastCall'.action.payload
        IN  /\ state'.loading = FALSE
            /\ state'.currentProfile = p
            /\ Len(state'.profiles) = Len(state.profiles)
            /\ \A i \in 1..Len(state.profiles) :
                    state'.profiles[i] =
                        IF state.profiles[i].id = p.id THEN p ELSE state.profiles[i]
            /\ (\A i \in 1..Len(state.profiles) : state.profiles[i].id # p.id) =>
                    state'.profiles = state.profiles
            /\ state'.error = state.error

C28_SaveSuccessReplacesInPlace == [][C28_Step]_vars

\* the edited version of the first profile took the first place of a
\* two-entry list; the second entry is another profile
C28_Witness ==
    /\ lastCall.op = "dispatch"
    /\ lastCall.action.type = "SAVE_SUCCESS"
    /\ Len(state.profiles) = 2
    /\ state.profiles[1] = lastCall.action.payload
    /\ state.profiles[1].settings # EmptyObject
    /\ state.profiles[2].id # lastCall.action.payload.id
    /\ state.currentProfile = lastCall.action.payload

----------------------------------------------------------------------------
\* C24: when loadConfig has run, loading is false, the in-memory current
\* profile is what the pointer slot holds (null when it holds nothing) and the
\* in-memory list is the stored list (empty when the slot is absent).
C24_Step ==
    lastCall'.op = "loadConfig" =>
        /\ state'.loading = FALSE
        /\ state'.currentProfile = Pointer
        /\ state'.profiles = List
        /\ localStorage[CONFIG_STORAGE_KEY] = Absent => state'.currentProfile = Null
        /\ localStorage[PROFILES_STORAGE_KEY] = Absent => state'.profiles = <<>>
        /\ localStorage' = localStorage

C24_LoadConfigMirrorsStore == [][C24_Step]_vars

\* loadConfig ran after the pointer slot had been rewritten in this session:
\* memory holds the profile of the slot and the two stored profiles
C24_Witness ==
    /\ lastCall.op = "loadConfig"
    /\ ~state.loading
    /\ state.currentProfile # Null
    /\ state.currentProfile = Pointer
    /\ state.currentProfile.updatedAt > 0
    /\ Len(state.profiles) = 2
    /\ state.profiles = List

----------------------------------------------------------------------------
\* C25: after saveConfig(update) succeeds for a current profile that is in the
\* stored list, the in-memory current profile, the pointer slot and the list
\* entry with that id all read, for every key of update.settings, the value
\* given in update.
C25_Step ==
    (/\ lastCall'.op = "saveConfig"
     /\ lastCall'.ret = "ok"
     /\ "settings" \in DOMAIN lastCall'.updates) =>
        LET s == lastCall'.updates.settings
            i == FindIndex(ListNext, state.currentProfile.id)
        IN  \A k \in DOMAIN s :
                /\ Get(state'.currentProfile.settings, k) = s[k]
                /\ i # 0
                /\ Get(ListNext[i].settings, k) = s[k]
                /\ PointerNext # Null
                /\ Get(PointerNext.settings, k) = s[k]

C25_SaveConfigReachesAllCopies == [][C25_Step]_vars

----------------------------------------------------------------------------
\* C27: updateSetting(k, v) with no current profile changes nothing in memory
\* and schedules no autosave; otherwise the current profile reads v at k,
\* keeps every other settings key, has updatedAt stamped with the clock, and
\* the in-memory list, loading, error and both storage slots are as before.
C27_Step ==
    lastCall'.op = "updateSetting" =>
        /\ localStorage' = localStorage
        /\ IF state.currentProfile = Null
           THEN /\ state' = state
                /\ timers' = timers
                /\ timeout' = timeout
           ELSE LET old == state.currentProfile
                    new == state'.currentProfile
                    k == lastCall'.key
                IN  /\ new # Null
                    /\ Get(new.settings, k) = lastCall'.value
                    /\ \A j \in DOMAIN old.settings \ {k} :
                            Get(new.settings, j) = old.settings[j]
                    /\ DOMAIN new.settings \subseteq DOMAIN old.settings \cup {k}
                    /\ new.updatedAt = now
                    /\ new.id = old.id
                    /\ state'.profiles = state.profiles
                    /\ state'.loading = state.loading
                    /\ state'.error = state.error

C27_UpdateSettingInMemoryOnly == [][C27_Step]_vars

\* a setting of a profile with two keys was changed, later than the profile's
\* last save: memory has the new value and the other key, the store has the
\* old value
C27_Witness ==
    /\ lastCall.op = "updateSetting"
    /\ state.currentProfile # Null
    /\ now > 0
    /\ state.currentProfile.updatedAt = now
    /\ Get(state.currentProfile.settings, lastCall.key) = lastCall.value
    /\ \E j \in DOMAIN state.currentProfile.settings : j # lastCall.key
    /\ Pointer # Null
    /\ Get(Pointer.settings, lastCall.key) # lastCall.value

----------------------------------------------------------------------------
\* C30: a profile that createProfile returns has version 1 and createdAt =
\* updatedAt = the clock at creation; no step (update, switch, delete of
\* another profile, autosave flush) changes the createdAt or version that a
\* stored id goes with, in the list or in the pointer slot.
C30_Step ==
    /\ lastCall'.op = "createProfile" =>
            /\ lastCall'.ret.version = 1
            /\ lastCall'.ret.createdAt = now
            /\ lastCall'.ret.updatedAt = now
            /\ ListNext[Len(ListNext)].id = lastCall'.ret.id
            /\ ListNext[Len(ListNext)].version = 1
            /\ ListNext[Len(ListNext)].createdAt = now
    /\ lastCall'.op \notin {"createProfile", "deleteProfile"} =>
            /\ Len(ListNext) = Len(List)
            /\ \A i \in 1..Len(List) : ListNext[i].id = List[i].id
    /\ \A i \in 1..Len(List), j \in 1..Len(ListNext) :
            ListNext[j].id = List[i].id =>
                /\ ListNext[j].createdAt = List[i].createdAt
                /\ ListNext[j].version = List[i].version
    /\ PointerNext # Null =>
            /\ \A i \in 1..Len(List) :
                    PointerNext.id = List[i].id =>
                        /\ PointerNext.createdAt = List[i].createdAt
                        /\ PointerNext.version = List[i].version
            /\ (Pointer # Null /\ PointerNext.id = Pointer.id) =>
                        /\ PointerNext.createdAt = Pointer.createdAt
                        /\ PointerNext.version = Pointer.version

C30_CreationFieldsImmutable == [][C30_Step]_vars

\* a profile created earlier has since been updated: its updatedAt moved, its
\* createdAt and version did not, in the list and in the pointer slot
C30_Witness ==
    /\ lastCall.op = "saveConfig"
    /\ lastCall.ret = "ok"
    /\ Len(List) > 0
    /\ List[1].updatedAt > List[1].createdAt
    /\ List[1].version = 1
    /\ Pointer # Null
    /\ Pointer.id = List[1].id
    /\ Pointer.createdAt = List[1].createdAt
    /\ Pointer.version = 1

----------------------------------------------------------------------------
\* C31: saveConfig called with no in-memory current profile, or with a current
\* profile whose id is not in the stored list, leaves both storage slots, the
\* in-memory current profile and the in-memory list as they were, ends with
\* loading = false and an error message, raises the error to its caller, and
\* schedules nothing (no retry).
C31_Step ==
    (/\ lastCall'.op = "saveConfig"
     /\ \/ state.currentProfile = Null
        \/ FindIndex(List, state.currentProfile.id) = 0) =>
        /\ localStorage' = localStorage
        /\ state'.currentProfile = state.currentProfile
        /\ state'.profiles = state.profiles
        /\ state'.loading = FALSE
        /\ state'.error # NoError
        /\ lastCall'.ret = "throw"
        /\ timers' = timers
        /\ timeout' = timeout

C31_SaveConfigFailsCleanly == [][C31_Step]_vars

\* saveConfig has just failed for a current profile that the stored list does
\* not hold
C31_Witness ==
    /\ lastCall.op = "saveConfig"
    /\ lastCall.ret = "throw"
    /\ state.currentProfile # Null
    /\ FindIndex(List, state.currentProfile.id) = 0
    /\ state.error # NoError
    /\ ~state.loading

----------------------------------------------------------------------------
\* C32: loadConfig and saveConfig, which set loading = true when they start,
\* set it back to false before they return, whether they succeed, fail on a
\* missing profile or fail on a rejected write; so loading is false in every
\* state between two provider calls.
C32_LoadingFalseAtRest == state.loading = FALSE

\* saveConfig has just failed on a rejected write and reported it
C32_Witness ==
    /\ lastCall.op = "saveConfig"
    /\ lastCall.storage
    /\ state.error # NoError
    /\ state.loading = FALSE

----------------------------------------------------------------------------
\* C39: when createProfile, saveConfig (through updateProfile) or
\* deleteProfile raises a storage error, neither the list slot nor the pointer
\* slot has changed, and the in-memory current profile and list are as before.
C39_Step ==
    (/\ lastCall'.op \in {"createProfile", "saveConfig", "deleteProfile"}
     /\ lastCall'.storage) =>
        /\ localStorage' = localStorage
        /\ state'.currentProfile = state.currentProfile
        /\ state'.profiles = state.profiles

C39_DualWriteAllOrNothing == [][C39_Step]_vars

----------------------------------------------------------------------------
\* C33: after every createProfile, deleteProfile, saveConfig, switchProfile or
\* updateSetting of the provider (the store accepting every write), the
\* in-memory profiles sequence has the entries of the stored profile list, in
\* the same order.
C33_Step ==
    lastCall'.op \in {"createProfile", "deleteProfile", "saveConfig", "switchProfile",
                      "updateSetting"} =>
        /\ Len(state'.profiles) = Len(ListNext)
        /\ \A i \in 1..Len(ListNext) :
                JsonProfile(state'.profiles[i]) = ListNext[i]

C33_MemoryListMirrorsStore == [][C33_Step]_vars

----------------------------------------------------------------------------
\* C34: updateSetting, a flush of the coalescer and switchProfile leave the
\* list slot as it is; of all operations only saveConfig (through
\* updateProfile) changes an entry of the stored list: createProfile keeps
\* the entries and adds one at the end, deleteProfile keeps the entries it
\* does not remove.
C34_Step ==
    /\ lastCall'.op \in {"updateSetting", "later", "switchProfile", "loadConfig", "tick"} =>
            localStorage'[PROFILES_STORAGE_KEY] = localStorage[PROFILES_STORAGE_KEY]
    /\ lastCall'.op = "createProfile" =>
            /\ Len(ListNext) = Len(List) + 1
            /\ SubSeq(ListNext, 1, Len(List)) = List
    /\ lastCall'.op = "deleteProfile" =>
            ListNext = Filter(List, lastCall'.profileId)

C34_ListWrittenOnlyByListOperations == [][C34_Step]_vars

\* a flush has just stored an edited setting in the pointer slot, and the list
\* entry of that profile still has the settings it had
C34_Witness ==
    /\ lastCall.op = "later"
    /\ Pointer # Null
    /\ \E i \in 1..Len(List) :
            /\ List[i].id = Pointer.id
            /\ List[i].settings # Pointer.settings

----------------------------------------------------------------------------
\* C35: in a session of loading, editing, saving and switching, the id in the
\* pointer slot changes only at a successful switchProfile: once
\* switchProfile(T) has succeeded the slot holds T's id until the next
\* successful switchProfile, and a flush of the coalescer in between does not
\* put the outgoing profile back.
C35_Step ==
    (/\ Pointer # Null
     /\ ~(lastCall'.op = "switchProfile" /\ lastCall'.ret = "ok")) =>
        /\ PointerNext # Null
        /\ PointerNext.id = Pointer.id

C35_PointerKeepsSwitchTarget == [][C35_Step]_vars

----------------------------------------------------------------------------
\* C36: in a session of updateSetting calls only (one per event, or two for
\* different keys within one event), once the delay has passed since the last
\* call and the flush has run, every settings key reads the same in the
\* pointer slot as in the in-memory current profile.
C36_FlushedPointerMatchesMemory ==
    (/\ burst.n > 0
     /\ timers = {}
     /\ state.currentProfile # Null) =>
        /\ Pointer # Null
        /\ \A k \in Keys :
                Get(Pointer.settings, k) = Get(state.currentProfile.settings, k)

----------------------------------------------------------------------------
\* C37: a successful saveConfig(update) leaves every settings key that update
\* does not name reading what it read before the call, in the in-memory
\* current profile and, when the pointer slot holds that profile, in the
\* pointer slot; this includes keys that updateSetting set earlier.
C37_Step ==
    (/\ lastCall'.op = "saveConfig"
     /\ lastCall'.ret = "ok") =>
        LET named == IF "settings" \in DOMAIN lastCall'.updates
                     THEN DOMAIN lastCall'.updates.settings
                     ELSE {}
        IN  \A k \in Keys \ named :
                /\ Get(state'.currentProfile.settings, k)
                        = Get(state.currentProfile.settings, k)
                /\ (Pointer # Null /\ Pointer.id = state.currentProfile.id) =>
                        /\ PointerNext # Null
                        /\ Get(PointerNext.settings, k) = Get(Pointer.settings, k)

C37_SaveConfigKeepsOtherKeys == [][C37_Step]_vars

----------------------------------------------------------------------------
\* C38: when updateSetting(k, v) was the last edit, made while profile A was
\* current, and switchProfile(B) has just succeeded, a successful
\* switchProfile(A) makes A current again with settings[k] = v, in memory and
\* in the pointer slot.
C38_Step ==
    (/\ lastCall.op = "switchProfile"
     /\ lastCall.ret = "ok"
     /\ burst.edit # Null
     /\ burst.lastArg.id # lastCall.profileId
     /\ lastCall'.op = "switchProfile"
     /\ lastCall'.ret = "ok"
     /\ lastCall'.profileId = burst.lastArg.id) =>
        /\ state'.currentProfile.id = burst.lastArg.id
        /\ Get(state'.currentProfile.settings, burst.edit.key) = burst.edit.value
        /\ PointerNext.id = burst.lastArg.id
        /\ Get(PointerNext.settings, burst.edit.key) = burst.edit.value

C38_SwitchRoundTripKeepsEdit == [][C38_Step]_vars

============================================================================
